---- MODULE Spec2Model ----
(***************************************************************************)
(* Verification model of the ledgermind-ai core: the insight synthesizer   *)
(* (src/core/insight-engine.ts) and the aggregator / concentration scorer  *)
(* (src/core/analytics.ts).                                                *)
(*                                                                         *)
(* Numbers.  Money is an integer number of mills (1/1000 of a currency     *)
(* unit), so that amounts finer than a cent exist and toFixed(2) rounds.   *)
(* A ratio is a record [n, d] standing for the real n/d; d = 0 stands for  *)
(* the IEEE results of a division by zero (n > 0: Infinity, n < 0:         *)
(* -Infinity, n = 0: NaN).  A value rounded by toFixed(4) is [k, 10000].   *)
(* The input sets below hold only amounts that a double represents         *)
(* exactly or whose rounding is far from a tie, so that the decimal        *)
(* rounding of the exact value is the one toFixed produces.                *)
(***************************************************************************)
EXTENDS Integers, Sequences, FiniteSets, TLC

VARIABLES
    \* ---- insight synthesizer (generateInsights / generateFallbackInsights)
    input,          \* the MetricsForInsight value under test
    metrics,        \* argument of the invocation in progress
    pc,             \* position of the generateInsights invocation
    response,       \* what fetch resolved with
    content,        \* data.content[0]?.text || ''
    requests,       \* requests issued to the text-generation service by this invocation
    fallbackRuns,   \* runs of generateFallbackInsights made by this invocation
    result,         \* the InsightEngineResult returned by the last completed call
    lastCall,       \* which function returned result, and whether through the catch block
    clock,          \* new Date(): advances with every call
    firstFallback,  \* history: the first fallback result computed for input
    \* ---- aggregator (analytics.ts)
    transactions,   \* the Transaction[] handed to the aggregator
    productsArg,    \* a ProductPerformance[] handed directly to calculateRevenueConcentration
    stage,          \* how far the aggregation pipeline has run
    totals,         \* calculateTotals(transactions)
    dailyRevenue,   \* calculateDailyRevenue(transactions)
    monthlyRevenue, \* calculateMonthlyRevenue(transactions)
    products,       \* calculateProductPerformance(transactions)
    concentration,  \* calculateRevenueConcentration(...)
    \* ---- health scorer (analytics.ts)
    healthArgs,     \* the totals, products and monthlyRevenue handed to calculateBusinessHealth
    anomalyCount,   \* the anomalyCount argument
    healthMetrics,  \* calculateBusinessHealth(...)
    \* ---- anomaly detector (anomaly.ts)
    series,         \* the DailyRevenue[] handed to detectAnomalies
    threshold,      \* the threshold argument
    detection,      \* detectAnomalies(series, threshold)
    anomaliesArg,   \* the Anomaly[] handed to detectAnomalyPatterns
    patterns,       \* detectAnomalyPatterns(anomaliesArg)
    detectStage,    \* which detector call has returned
    \* ---- forecaster (forecasting.ts)
    history,        \* the DailyRevenue[] handed to forecastRevenue
    daysToForecast, \* the daysToForecast argument
    forecast,       \* forecastRevenue(history, daysToForecast)
    forecastStage,  \* whether forecastRevenue has returned
    timeZone,       \* the time zone of the process (what Date's local-time methods use)
    \* ---- report endpoint (app/api/report/route.ts)
    analytics,      \* computeAnalytics(transactions, anomalyCount)
    status,         \* the HTTP status of the response, 0 before it is sent
    endpoint,       \* the endpoint that served the request
    \* ---- a caller's array handed to core functions
    heap,           \* the arrays that exist, by reference
    given,          \* the elements of the caller's array when it was built
    called,         \* the core functions called on the caller's array so far
    returned        \* what the last call returned

insightVars == <<input, metrics, pc, response, content, requests, fallbackRuns,
                 result, lastCall, clock, firstFallback>>
aggVars == <<transactions, productsArg, stage, totals, dailyRevenue, monthlyRevenue,
             products, concentration>>
healthVars == <<healthArgs, anomalyCount, healthMetrics>>
detectVars == <<series, threshold, detection, anomaliesArg, patterns, detectStage>>
forecastVars == <<history, daysToForecast, forecast, forecastStage, timeZone>>
routeVars == <<analytics, status, endpoint>>
frameVars == <<heap, given, called, returned>>
scorerVars == <<healthVars, detectVars, forecastVars, routeVars, frameVars>>
analyticsVars == <<aggVars, scorerVars>>
vars == <<insightVars, analyticsVars>>

----------------------------------------------------------------------------
(* Bounds of the model *)

\* calls of generateInsights / generateFallbackInsights in one behaviour
MaxCalls == 3

\* transactions in one input list
MaxTx == 3

\* entries of a product list handed directly to calculateRevenueConcentration
MaxProducts == 4

\* transactions in one input list of the single-day catalogue
MaxCatalogueTx == 4

\* days of a revenue series of which every choice of revenues is tried
MaxDays == 3

\* entries of an anomaly list handed directly to detectAnomalyPatterns
MaxAnomalies == 4

\* largest daysToForecast of which every smaller value is tried as well
MaxForecast == 3

----------------------------------------------------------------------------
(* JavaScript numbers and strings *)

Abs(x) == IF x < 0 THEN -x ELSE x

\* Number.prototype.toFixed on the exact value p/q (q > 0), as an integer count of
\* the last kept digit: the nearest one, the larger in magnitude on a tie.
RoundDiv(p, q) ==
    LET a == Abs(p)
        nearest == IF 2 * (a % q) >= q THEN (a \div q) + 1 ELSE a \div q
    IN  IF p >= 0 THEN nearest ELSE -nearest

\* parseFloat(x.toFixed(2)) of an amount in mills: a whole number of cents, in mills.
ToFixed2(x) == 10 * RoundDiv(x, 10)

\* The exact value (p/q) * 10^digits rounded as toFixed rounds (p >= 0, q > 0),
\* digit by digit so that no intermediate product leaves the integer range.
RECURSIVE ScaledDiv(_, _, _)
ScaledDiv(p, q, digits) ==
    IF digits = 0 THEN RoundDiv(p, q)
    ELSE (p \div q) * (10 ^ digits) + ScaledDiv(10 * (p % q), q, digits - 1)

\* parseFloat((n/d).toFixed(4)) as a ratio over 10000.
ToFixed4(n, d) ==
    [n |-> IF n >= 0 THEN ScaledDiv(n, d, 4) ELSE -ScaledDiv(-n, d, 4), d |-> 10000]

IsNaN(x) == x.d = 0 /\ x.n = 0
IsFinite(x) == x.d > 0

\* x > a/b and x < a/b for a JavaScript number x and a literal a/b (b > 0);
\* every comparison with NaN is false.
NumGT(x, a, b) ==
    IF x.d = 0 THEN x.n > 0 ELSE x.n * b > a * x.d
NumLT(x, a, b) ==
    IF x.d = 0 THEN x.n < 0 ELSE x.n * b < a * x.d

Digits == <<"0", "1", "2", "3", "4", "5", "6", "7", "8", "9">>

RECURSIVE NatToString(_)
NatToString(k) ==
    IF k < 10 THEN Digits[k + 1]
              ELSE NatToString(k \div 10) \o Digits[(k % 10) + 1]

\* String(k) for an integer k
IntToString(k) == IF k < 0 THEN "-" \o NatToString(-k) ELSE NatToString(k)

\* (x * 100).toFixed(1) for a JavaScript number x
PercentToFixed1(x) ==
    IF x.d = 0
    THEN (IF x.n > 0 THEN "Infinity" ELSE IF x.n < 0 THEN "-Infinity" ELSE "NaN")
    ELSE LET t == RoundDiv(1000 * Abs(x.n), x.d)
         IN  (IF x.n < 0 THEN "-" ELSE "")
             \o NatToString(t \div 10) \o "." \o Digits[(t % 10) + 1]

\* Math.abs(x * 100).toFixed(1)
AbsPercentToFixed1(x) == PercentToFixed1([n |-> Abs(x.n), d |-> x.d])

UpperCase == <<"A", "B", "C", "D", "E", "F", "G", "H", "I", "J", "K", "L", "M",
               "N", "O", "P", "Q", "R", "S", "T", "U", "V", "W", "X", "Y", "Z">>
LowerCase == <<"a", "b", "c", "d", "e", "f", "g", "h", "i", "j", "k", "l", "m",
               "n", "o", "p", "q", "r", "s", "t", "u", "v", "w", "x", "y", "z">>

LowerChar(c) ==
    IF \E i \in DOMAIN UpperCase : UpperCase[i] = c
    THEN LowerCase[CHOOSE i \in DOMAIN UpperCase : UpperCase[i] = c]
    ELSE c

\* String.prototype.toLowerCase
RECURSIVE toLowerCase(_)
toLowerCase(s) ==
    IF s = "" THEN "" ELSE LowerChar(Head(s)) \o toLowerCase(Tail(s))

\* Array.prototype.join
RECURSIVE join(_, _)
join(strs, sep) ==
    IF Len(strs) = 0 THEN ""
    ELSE IF Len(strs) = 1 THEN strs[1]
    ELSE strs[1] \o sep \o join(Tail(strs), sep)

\* Array.prototype.slice(from, to) with 0 <= from
slice(s, from, to) ==
    SubSeq(s, from + 1, IF to < Len(s) THEN to ELSE Len(s))

RECURSIVE SumSeq(_)
SumSeq(s) == IF s = <<>> THEN 0 ELSE Head(s) + SumSeq(Tail(s))

----------------------------------------------------------------------------
(* Insight synthesizer: the deterministic rule set (generateFallbackInsights) *)

\* BusinessInsight.category and .priority as the type declares them
InsightCategories == {"revenue", "profitability", "risk", "opportunity", "warning"}
InsightPriorities == {"high", "medium", "low"}

\* `insights.slice(0, 6)`
MaxInsights == 6

\* Revenue concentration risk: top3ProductShare > 0.7
ConcentrationInsight(m) ==
    IF NumGT(m.revenueConcentration.top3ProductShare, 7, 10)
    THEN << [category |-> "risk",
             priority |-> "high",
             title |-> "High Revenue Concentration Risk",
             description |-> "Your top 3 products account for "
                 \o PercentToFixed1(m.revenueConcentration.top3ProductShare)
                 \o "% of total revenue, creating dependency risk.",
             impact |-> "Loss of any top product could severely impact overall business revenue.",
             recommendation |-> "Diversify product portfolio and develop new revenue streams to reduce concentration risk."] >>
    ELSE <<>>

\* Mutant: the 20% margin floor of the prompt (line 57) used in place of 15%
MarginInsight_Below20(m) ==
    IF NumLT(m.profitMargin, 20, 100)
    THEN << [category |-> "warning", priority |-> "high",
             title |-> "Low Profit Margin Alert",
             description |-> "Current profit margin of "
                 \o PercentToFixed1(m.profitMargin)
                 \o "% is below healthy threshold of 15%.",
             impact |-> "Thin margins leave little buffer for unexpected costs or market changes.",
             recommendation |-> "Review pricing strategy, negotiate better supplier terms, or reduce operational costs."] >>
    ELSE IF NumGT(m.profitMargin, 3, 10)
    THEN << [category |-> "profitability", priority |-> "medium",
             title |-> "Strong Profit Margins",
             description |-> "Excellent profit margin of "
                 \o PercentToFixed1(m.profitMargin)
                 \o "% indicates efficient operations.",
             impact |-> "Strong margins provide financial cushion and growth capital.",
             recommendation |-> "Maintain current efficiency while exploring reinvestment opportunities for growth."] >>
    ELSE <<>>

\* Profit margin analysis: < 0.15, else > 0.3
MarginInsight(m) ==
    IF NumLT(m.profitMargin, 15, 100)
    THEN << [category |-> "warning",
             priority |-> "high",
             title |-> "Low Profit Margin Alert",
             description |-> "Current profit margin of "
                 \o PercentToFixed1(m.profitMargin)
                 \o "% is below healthy threshold of 15%.",
             impact |-> "Thin margins leave little buffer for unexpected costs or market changes.",
             recommendation |-> "Review pricing strategy, negotiate better supplier terms, or reduce operational costs."] >>
    ELSE IF NumGT(m.profitMargin, 3, 10)
    THEN << [category |-> "profitability",
             priority |-> "medium",
             title |-> "Strong Profit Margins",
             description |-> "Excellent profit margin of "
                 \o PercentToFixed1(m.profitMargin)
                 \o "% indicates efficient operations.",
             impact |-> "Strong margins provide financial cushion and growth capital.",
             recommendation |-> "Maintain current efficiency while exploring reinvestment opportunities for growth."] >>
    ELSE <<>>

\* Growth analysis: recentTrend === 'up', else === 'down'
GrowthInsight(m) ==
    IF m.trendAnalysis.recentTrend = "up"
    THEN << [category |-> "opportunity",
             priority |-> "medium",
             title |-> "Positive Growth Trajectory",
             description |-> "Revenue growing at "
                 \o PercentToFixed1(m.trendAnalysis.growthRate)
                 \o "% with upward trend.",
             impact |-> "Growth momentum creates opportunities for expansion and market share.",
             recommendation |-> "Capitalize on growth by increasing inventory, hiring capacity, or expanding marketing."] >>
    ELSE IF m.trendAnalysis.recentTrend = "down"
    THEN << [category |-> "warning",
             priority |-> "high",
             title |-> "Declining Revenue Trend",
             description |-> "Revenue declining at "
                 \o AbsPercentToFixed1(m.trendAnalysis.growthRate)
                 \o "% with downward trend.",
             impact |-> "Continued decline could threaten business sustainability.",
             recommendation |-> "Investigate root causes: market conditions, competition, product quality, or customer satisfaction."] >>
    ELSE <<>>

\* Anomaly analysis: anomalyCount > 5, else === 0
AnomalyInsight(m) ==
    IF m.anomalyCount > 5
    THEN << [category |-> "risk",
             priority |-> "medium",
             title |-> "Revenue Volatility Detected",
             description |-> IntToString(m.anomalyCount)
                 \o " revenue anomalies detected, indicating unstable patterns.",
             impact |-> "High volatility makes forecasting and planning difficult.",
             recommendation |-> "Stabilize revenue streams through consistent marketing, pricing, and customer retention efforts."] >>
    ELSE IF m.anomalyCount = 0
    THEN << [category |-> "profitability",
             priority |-> "low",
             title |-> "Stable Revenue Patterns",
             description |-> "No significant anomalies detected, indicating stable operations.",
             impact |-> "Predictable revenue enables confident business planning.",
             recommendation |-> "Maintain operational consistency while exploring controlled growth initiatives."] >>
    ELSE <<>>

\* Mutant: the health warning starts below 40
HealthInsight_Below40(m) ==
    IF m.healthScore >= 80
    THEN << [category |-> "opportunity",
             priority |-> "low",
             title |-> "Excellent Business Health",
             description |-> "Health score of " \o IntToString(m.healthScore)
                 \o "/100 indicates strong overall performance.",
             impact |-> "Strong position enables strategic investments and expansion.",
             recommendation |-> "Focus on sustainable growth and market leadership opportunities."] >>
    ELSE IF m.healthScore < 40
    THEN << [category |-> "warning",
             priority |-> "high",
             title |-> "Business Health Concerns",
             description |-> "Health score of " \o IntToString(m.healthScore)
                 \o "/100 requires immediate attention.",
             impact |-> "Low health score indicates multiple risk factors need addressing.",
             recommendation |-> "Prioritize profitability improvement, cost reduction, and revenue stabilization."] >>
    ELSE <<>>

\* Health score analysis: healthScore >= 80, else < 50
HealthInsight(m) ==
    IF m.healthScore >= 80
    THEN << [category |-> "opportunity",
             priority |-> "low",
             title |-> "Excellent Business Health",
             description |-> "Health score of " \o IntToString(m.healthScore)
                 \o "/100 indicates strong overall performance.",
             impact |-> "Strong position enables strategic investments and expansion.",
             recommendation |-> "Focus on sustainable growth and market leadership opportunities."] >>
    ELSE IF m.healthScore < 50
    THEN << [category |-> "warning",
             priority |-> "high",
             title |-> "Business Health Concerns",
             description |-> "Health score of " \o IntToString(m.healthScore)
                 \o "/100 requires immediate attention.",
             impact |-> "Low health score indicates multiple risk factors need addressing.",
             recommendation |-> "Prioritize profitability improvement, cost reduction, and revenue stabilization."] >>
    ELSE <<>>

\* The local array `insights` after the five rule groups have pushed onto `start`
\* (`const insights = []` makes start the empty array).
PushedInsights(start, m) ==
    start \o ConcentrationInsight(m) \o MarginInsight(m) \o GrowthInsight(m)
          \o AnomalyInsight(m) \o HealthInsight(m)

\* The opening sentence of the executive summary, keyed on the healthScore band
SummaryOpening(m) ==
    IF m.healthScore >= 70
    THEN "Business is performing well with " \o PercentToFixed1(m.profitMargin)
         \o "% profit margin and " \o m.trendAnalysis.recentTrend \o " revenue trend. "
    ELSE IF m.healthScore >= 50
    THEN "Business shows moderate health with room for improvement. "
    ELSE "Business requires urgent attention across multiple areas. "

IsHighPriority(i) == i.priority = "high"
\* Mutant: the title listed as it is, without toLowerCase()
LowerTitle_AsWritten(i) == i.title
LowerTitle(i) == toLowerCase(i.title)

\* `insights.filter((i) => i.priority === 'high')`
HighPriorityInsights(insights) == SelectSeq(insights, IsHighPriority)

\* `.map((i) => i.title.toLowerCase())`
LowerTitles(insights) == [k \in DOMAIN insights |-> LowerTitle(insights[k])]

\* `Key priorities: ${insights.filter(...).map(...).join(', ')}.`
PrioritiesClause(insights) ==
    "Key priorities: " \o join(LowerTitles(HighPriorityInsights(insights)), ", ") \o "."

ExecutiveSummaryOf(m, insights) == SummaryOpening(m) \o PrioritiesClause(insights)

KeyMetrics(m) ==
    [totalRevenue |-> m.totalRevenue,
     totalProfit |-> m.totalProfit,
     profitMargin |-> m.profitMargin,
     healthScore |-> m.healthScore,
     growthRate |-> m.trendAnalysis.growthRate]

\* JavaScript values that a field of the result can hold
JsUndefined == [type |-> "undefined"]
JsNull == [type |-> "null"]
JsNumber(k) == [type |-> "number", num |-> k]
JsString(s) == [type |-> "string", str |-> s]
JsArray(a) == [type |-> "array", items |-> a]

\* Mutant: the summary carries the time of the call
generateFallbackInsights_Dated(m, now) ==
    LET insights == PushedInsights(<<>>, m)
    IN  [insights |-> JsArray(slice(insights, 0, MaxInsights)),
         executiveSummary |->
             JsString(ExecutiveSummaryOf(m, insights) \o " Generated at "
                      \o IntToString(now) \o "."),
         keyMetrics |-> KeyMetrics(m),
         generatedAt |-> now]

\* generateFallbackInsights(metrics), called at time `now` with a fresh local array
generateFallbackInsights(m, now) ==
    LET insights == PushedInsights(<<>>, m)
    IN  [insights |-> JsArray(slice(insights, 0, MaxInsights)),
         executiveSummary |-> JsString(ExecutiveSummaryOf(m, insights)),
         keyMetrics |-> KeyMetrics(m),
         generatedAt |-> now]

----------------------------------------------------------------------------
(* Insight synthesizer: inputs *)

Ratio(k) == [n |-> k, d |-> 10000]
NaN == [n |-> 0, d |-> 0]

\* Values on both sides of every threshold of the rule set.  Ratios are whole
\* tenths of a percent (or 70.01%), so that toFixed(1) has no tie to break;
\* NaN is what prepareMetricsForInsight passes when totalRevenue is 0.
Top3Shares == {Ratio(7000), Ratio(7001), NaN}
ProfitMargins == {Ratio(1490), Ratio(1500), Ratio(3000), Ratio(3010)}
\* the declared values of recentTrend, and one that forecast.trend can put there
RecentTrends == {"up", "down", "stable", "increasing"}
AnomalyCounts == {0, 1, 5, 6}
HealthScores == {49, 50, 69, 70, 79, 80}

MetricsFor(t3, pm, tr, ac, hs) ==
    [totalRevenue |-> 138000,
     totalProfit |-> 103300,
     profitMargin |-> pm,
     healthScore |-> hs,
     revenueConcentration |-> [topProductShare |-> Ratio(5580), top3ProductShare |-> t3],
     trendAnalysis |-> [recentTrend |-> tr, growthRate |-> Ratio(-1250)],
     anomalyCount |-> ac,
     forecastTrend |-> "stable"]

MetricsSet ==
    { MetricsFor(t3, pm, tr, ac, hs) :
        t3 \in Top3Shares, pm \in ProfitMargins, tr \in RecentTrends,
        ac \in AnomalyCounts, hs \in HealthScores }

\* The inputs of the generateInsights process: every rule group fires for some
\* of them, and for some no rule fires at all
InsightInputs ==
    { MetricsFor(t3, pm, tr, ac, hs) :
        t3 \in {Ratio(7001), NaN}, pm \in {Ratio(1490), Ratio(3000)},
        tr \in {"down", "stable"}, ac \in {0, 1}, hs \in {49, 70} }

\* A second, different argument, for the calls made in between two runs on input
OtherMetrics == MetricsFor(Ratio(9000), Ratio(1000), "down", 0, 40)

----------------------------------------------------------------------------
(* Insight synthesizer: the text-generation collaborator *)

LlmInsight(c, p) ==
    [category |-> c, priority |-> p, title |-> "T", description |-> "D",
     impact |-> "I", recommendation |-> "R"]

LlmInsightText(c, p) ==
    "{\"category\":\"" \o c \o "\",\"priority\":\"" \o p
    \o "\",\"title\":\"T\",\"description\":\"D\",\"impact\":\"I\",\"recommendation\":\"R\"}"

GoodInsights == << LlmInsight("risk", "high"), LlmInsight("revenue", "low") >>
GoodInsightsText == LlmInsightText("risk", "high") \o "," \o LlmInsightText("revenue", "low")

SevenInsights == [i \in 1..7 |-> LlmInsight("opportunity", "medium")]
SevenInsightsText == join([i \in 1..7 |-> LlmInsightText("opportunity", "medium")], ",")

TextEmpty == ""
TextProse == "Here are the insights you asked for: revenue is concentrated."
TextNull == "null"
TextNumber == "42"
TextEmptyObject == "{}"
TextWellFormed ==
    "{\"insights\":[" \o GoodInsightsText \o "],\"executiveSummary\":\"Steady.\"}"
TextNoInsights == "{\"executiveSummary\":\"Steady.\"}"
TextNoSummary == "{\"insights\":[" \o GoodInsightsText \o "]}"
TextSevenInsights ==
    "{\"insights\":[" \o SevenInsightsText \o "],\"executiveSummary\":\"Steady.\"}"
TextBadEnum ==
    "{\"insights\":[" \o LlmInsightText("general", "urgent")
    \o "],\"executiveSummary\":\"Steady.\"}"

Texts == {TextProse, TextNull, TextNumber, TextEmptyObject, TextWellFormed,
          TextNoInsights, TextNoSummary, TextSevenInsights, TextBadEnum}

JsObject(props) == [type |-> "object", props |-> props]

\* JSON.parse on the texts above: [ok |-> FALSE] is a SyntaxError
JSONParse(text) ==
    CASE text = TextNull -> [ok |-> TRUE, value |-> JsNull]
      [] text = TextNumber -> [ok |-> TRUE, value |-> JsNumber(42)]
      [] text = TextEmptyObject -> [ok |-> TRUE, value |-> JsObject(<<>>)]
      [] text = TextWellFormed ->
            [ok |-> TRUE,
             value |-> JsObject([insights |-> JsArray(GoodInsights),
                                 executiveSummary |-> JsString("Steady.")])]
      [] text = TextNoInsights ->
            [ok |-> TRUE, value |-> JsObject([executiveSummary |-> JsString("Steady.")])]
      [] text = TextNoSummary ->
            [ok |-> TRUE, value |-> JsObject([insights |-> JsArray(GoodInsights)])]
      [] text = TextSevenInsights ->
            [ok |-> TRUE,
             value |-> JsObject([insights |-> JsArray(SevenInsights),
                                 executiveSummary |-> JsString("Steady.")])]
      [] text = TextBadEnum ->
            [ok |-> TRUE,
             value |-> JsObject([insights |-> JsArray(<<LlmInsight("general", "urgent")>>),
                                 executiveSummary |-> JsString("Steady.")])]
      [] OTHER -> [ok |-> FALSE]

\* Reading a property throws a TypeError on null and undefined
ThrowsOnPropertyRead(v) == v.type \in {"null", "undefined"}

\* v.name for a value that does not throw: undefined unless an object has it
GetProperty(v, name) ==
    IF v.type = "object" /\ name \in DOMAIN v.props THEN v.props[name] ELSE JsUndefined

\* What `await fetch(...)` can give.  rejected: the request throws.  Otherwise a
\* Response: ok (status 2xx), whether its body is JSON, whether that JSON has a
\* `content` array, and the blocks of that array (hasText: the block has `text`).
NoResponse ==
    [rejected |-> FALSE, ok |-> FALSE, bodyIsJson |-> FALSE, hasContent |-> FALSE,
     blocks |-> <<>>]
Rejection == [NoResponse EXCEPT !.rejected = TRUE]
HttpResponse(ok, bodyIsJson, hasContent, blocks) ==
    [rejected |-> FALSE, ok |-> ok, bodyIsJson |-> bodyIsJson,
     hasContent |-> hasContent, blocks |-> blocks]
TextBlock(t) == [hasText |-> TRUE, text |-> t]
OtherBlock == [hasText |-> FALSE, text |-> ""]

Responses ==
    { HttpResponse(FALSE, TRUE, FALSE, <<>>),                \* 401/429/500 with an error body
      HttpResponse(FALSE, TRUE, TRUE, <<TextBlock(TextWellFormed)>>), \* non-2xx, usable body
      HttpResponse(TRUE, FALSE, FALSE, <<>>),                \* 2xx, body is not JSON
      HttpResponse(TRUE, TRUE, FALSE, <<>>),                 \* 2xx, no content array
      HttpResponse(TRUE, TRUE, TRUE, <<>>),                  \* 2xx, content: []
      HttpResponse(TRUE, TRUE, TRUE, <<OtherBlock>>),        \* 2xx, first block has no text
      HttpResponse(TRUE, TRUE, TRUE, <<TextBlock(TextEmpty)>>) }
    \cup { HttpResponse(TRUE, TRUE, TRUE, <<TextBlock(t)>>) : t \in Texts }

----------------------------------------------------------------------------
(* Insight synthesizer: generateInsights as a process *)

NoResult ==
    [insights |-> JsUndefined, executiveSummary |-> JsUndefined,
     keyMetrics |-> <<>>, generatedAt |-> -1]

\* The aggregator's variables at rest
AggIdle ==
    /\ transactions = <<>>
    /\ productsArg = <<>>
    /\ stage = "idle"
    /\ totals = <<>>
    /\ dailyRevenue = <<>>
    /\ monthlyRevenue = <<>>
    /\ products = <<>>
    /\ concentration = <<>>
    /\ healthArgs = <<>>
    /\ anomalyCount = 0
    /\ healthMetrics = <<>>

DetectIdle ==
    /\ series = <<>>
    /\ threshold = <<>>
    /\ detection = <<>>
    /\ anomaliesArg = <<>>
    /\ patterns = <<>>
    /\ detectStage = "idle"

ForecastIdle ==
    /\ history = <<>>
    /\ daysToForecast = 0
    /\ forecast = <<>>
    /\ forecastStage = "idle"
    /\ timeZone = "UTC"

\* No request is being served
RouteIdle ==
    /\ analytics = <<>>
    /\ status = 0
    /\ endpoint = "none"

\* No caller's array exists
FrameIdle ==
    /\ heap = <<>>
    /\ given = <<>>
    /\ called = {}
    /\ returned = <<>>

\* No call of the insight engine is in progress and none has been made
InsightAtRest ==
    /\ metrics = input
    /\ pc = "idle"
    /\ response = NoResponse
    /\ content = ""
    /\ requests = 0
    /\ fallbackRuns = 0
    /\ result = NoResult
    /\ lastCall = "none"
    /\ clock = 0
    /\ firstFallback = NoResult

InsightStart ==
    /\ InsightAtRest
    /\ AggIdle
    /\ DetectIdle
    /\ ForecastIdle
    /\ RouteIdle
    /\ FrameIdle

InsightInit ==
    /\ input \in InsightInputs
    /\ InsightStart

FallbackInit ==
    /\ input \in MetricsSet
    /\ InsightStart

\* The history of fallback results for input: the first one is kept
RecordFallback(m, r) ==
    IF m = input /\ firstFallback = NoResult THEN r ELSE firstFallback

\* A caller invokes generateInsights(m): line 72, up to the fetch
CallGenerateInsights(m) ==
    /\ pc = "idle"
    /\ clock < MaxCalls
    /\ metrics' = m
    /\ pc' = "fetch"
    /\ requests' = 0
    /\ fallbackRuns' = 0
    /\ response' = NoResponse
    /\ content' = ""
    /\ result' = NoResult
    /\ lastCall' = "none"
    /\ clock' = clock + 1
    /\ UNCHANGED <<input, firstFallback, analyticsVars>>

\* `await fetch(...)`: the one request; it throws or resolves with a Response
Fetch(r) ==
    /\ pc = "fetch"
    /\ requests' = requests + 1
    /\ response' = r
    /\ pc' = IF r.rejected THEN "catch" ELSE "checkOk"
    /\ UNCHANGED <<input, metrics, content, fallbackRuns, result, lastCall, clock,
                   firstFallback, analyticsVars>>

\* Mutant: the status check is missing
CheckOk_StatusIgnored ==
    /\ pc = "checkOk"
    /\ pc' = "json"
    /\ UNCHANGED <<input, metrics, response, content, requests, fallbackRuns, result,
                   lastCall, clock, firstFallback, analyticsVars>>

\* `if (!response.ok) throw new Error(...)`
CheckOk ==
    /\ pc = "checkOk"
    /\ pc' = IF response.ok THEN "json" ELSE "catch"
    /\ UNCHANGED <<input, metrics, response, content, requests, fallbackRuns, result,
                   lastCall, clock, firstFallback, analyticsVars>>

\* `data.content[0]?.text || ''` on the body `await response.json()` gave
ContentText(r) ==
    IF Len(r.blocks) > 0 /\ r.blocks[1].hasText THEN r.blocks[1].text ELSE ""

\* `const data = await response.json(); const content = data.content[0]?.text || ''`:
\* a body that is not JSON rejects, a missing `content` is a TypeError
ReadBody ==
    /\ pc = "json"
    /\ IF response.bodyIsJson /\ response.hasContent
       THEN /\ content' = ContentText(response)
            /\ pc' = "parse"
       ELSE /\ content' = content
            /\ pc' = "catch"
    /\ UNCHANGED <<input, metrics, response, requests, fallbackRuns, result, lastCall,
                   clock, firstFallback, analyticsVars>>

\* `const parsed = JSON.parse(content); return {insights: parsed.insights, ...}`
ParseAndReturn ==
    /\ pc = "parse"
    /\ LET parsed == JSONParse(content)
       IN  IF parsed.ok /\ ~ThrowsOnPropertyRead(parsed.value)
           THEN /\ result' = [insights |-> GetProperty(parsed.value, "insights"),
                              executiveSummary |->
                                  GetProperty(parsed.value, "executiveSummary"),
                              keyMetrics |-> KeyMetrics(metrics),
                              generatedAt |-> clock]
                /\ lastCall' = "try"
                /\ pc' = "done"
           ELSE /\ result' = result
                /\ lastCall' = lastCall
                /\ pc' = "catch"
    /\ UNCHANGED <<input, metrics, response, content, requests, fallbackRuns, clock,
                   firstFallback, analyticsVars>>

\* Mutant: the catch block tries the request once more before it falls back
CatchFallback_RetryOnce ==
    /\ pc = "catch"
    /\ IF requests < 2
       THEN /\ pc' = "fetch"
            /\ UNCHANGED <<fallbackRuns, result, firstFallback, lastCall>>
       ELSE /\ fallbackRuns' = fallbackRuns + 1
            /\ result' = generateFallbackInsights(metrics, clock)
            /\ firstFallback' = RecordFallback(metrics, result')
            /\ lastCall' = "catch"
            /\ pc' = "done"
    /\ UNCHANGED <<input, metrics, response, content, requests, clock, analyticsVars>>

\* `catch (error) { return generateFallbackInsights(metrics); }`
CatchFallback ==
    /\ pc = "catch"
    /\ fallbackRuns' = fallbackRuns + 1
    /\ result' = generateFallbackInsights(metrics, clock)
    /\ firstFallback' = RecordFallback(metrics, result')
    /\ lastCall' = "catch"
    /\ pc' = "done"
    /\ UNCHANGED <<input, metrics, response, content, requests, clock, analyticsVars>>

\* The caller has the result; the next call may start
Return ==
    /\ pc = "done"
    /\ pc' = "idle"
    /\ UNCHANGED <<input, metrics, response, content, requests, fallbackRuns, result,
                   lastCall, clock, firstFallback, analyticsVars>>

\* A caller invokes the exported generateFallbackInsights(m) directly
CallFallback(m) ==
    /\ pc = "idle"
    /\ clock < MaxCalls
    /\ metrics' = m
    /\ clock' = clock + 1
    /\ result' = generateFallbackInsights(m, clock')
    /\ firstFallback' = RecordFallback(m, result')
    /\ lastCall' = "direct"
    /\ UNCHANGED <<input, pc, response, content, requests, fallbackRuns, analyticsVars>>

CallInsightsOnInput == CallGenerateInsights(input)
CallInsightsOnOther == CallGenerateInsights(OtherMetrics)
FetchRejects == Fetch(Rejection)
FetchResolves == \E r \in Responses : Fetch(r)
CallFallbackOnInput == CallFallback(input)
CallFallbackOnOther == CallFallback(OtherMetrics)

InsightNext ==
    \/ CallInsightsOnInput
    \/ CallInsightsOnOther
    \/ FetchRejects
    \/ FetchResolves
    \/ CheckOk
    \/ ReadBody
    \/ ParseAndReturn
    \/ CatchFallback
    \/ Return
    \/ CallFallbackOnInput
    \/ CallFallbackOnOther

SpecInsights == InsightInit /\ [][InsightNext]_vars

\* Direct calls of generateFallbackInsights alone, on every input of MetricsSet
FallbackNext ==
    \/ CallFallbackOnInput
    \/ CallFallbackOnOther

SpecFallback == FallbackInit /\ [][FallbackNext]_vars

----------------------------------------------------------------------------
(* Aggregator: dates, Map and sort *)

\* String(n).padStart(2, '0')
PadStart2(n) == IF n < 10 THEN "0" \o NatToString(n) ELSE NatToString(n)

\* tx.date.toISOString().split('T')[0] of a date [year, month, day] (UTC midnight)
IsoDate(date) ==
    NatToString(date.year) \o "-" \o PadStart2(date.month) \o "-" \o PadStart2(date.day)

\* `${date.getFullYear()}-${String(date.getMonth() + 1).padStart(2, '0')}`, with the
\* process in UTC (getMonth() is 0-based: month - 1)
MonthKey(date) ==
    NatToString(date.year) \o "-" \o PadStart2((date.month - 1) + 1)

\* Collation rank of the characters of a date key
CharRank(c) ==
    IF c = "-" THEN 0
    ELSE 1 + (CHOOSE k \in 0..9 : Digits[k + 1] = c)

\* a.localeCompare(b) on date keys: negative, zero or positive
RECURSIVE localeCompare(_, _)
localeCompare(a, b) ==
    IF a = "" /\ b = "" THEN 0
    ELSE IF a = "" THEN -1
    ELSE IF b = "" THEN 1
    ELSE IF CharRank(Head(a)) < CharRank(Head(b)) THEN -1
    ELSE IF CharRank(Head(a)) > CharRank(Head(b)) THEN 1
    ELSE localeCompare(Tail(a), Tail(b))

\* A Map is the sequence of its entries [key, value] in insertion order
MapHas(m, key) == \E k \in DOMAIN m : m[k].key = key
MapGet(m, key) == m[CHOOSE k \in DOMAIN m : m[k].key = key].value
\* Map.prototype.set: an existing key keeps its position
MapSet(m, key, value) ==
    IF MapHas(m, key)
    THEN [k \in DOMAIN m |-> IF m[k].key = key THEN [key |-> key, value |-> value]
                                               ELSE m[k]]
    ELSE Append(m, [key |-> key, value |-> value])

\* Array.prototype.sort is stable: an element goes behind every element the
\* comparator does not put after it.
InsertByDate(sorted, x) ==
    LET k == Cardinality({j \in DOMAIN sorted : localeCompare(sorted[j].date, x.date) <= 0})
    IN  SubSeq(sorted, 1, k) \o <<x>> \o SubSeq(sorted, k + 1, Len(sorted))

\* .sort((a, b) => a.date.localeCompare(b.date))
RECURSIVE SortByDate(_)
SortByDate(s) ==
    IF s = <<>> THEN <<>>
    ELSE InsertByDate(SortByDate(SubSeq(s, 1, Len(s) - 1)), s[Len(s)])

InsertByMonth(sorted, x) ==
    LET k == Cardinality({j \in DOMAIN sorted : localeCompare(sorted[j].month, x.month) <= 0})
    IN  SubSeq(sorted, 1, k) \o <<x>> \o SubSeq(sorted, k + 1, Len(sorted))

\* .sort((a, b) => a.month.localeCompare(b.month))
RECURSIVE SortByMonth(_)
SortByMonth(s) ==
    IF s = <<>> THEN <<>>
    ELSE InsertByMonth(SortByMonth(SubSeq(s, 1, Len(s) - 1)), s[Len(s)])

\* Mutant: equal revenues are put in front of each other (an unstable order)
InsertByRevenueDesc_TiesReversed(sorted, x) ==
    LET k == Cardinality({j \in DOMAIN sorted : sorted[j].totalRevenue > x.totalRevenue})
    IN  SubSeq(sorted, 1, k) \o <<x>> \o SubSeq(sorted, k + 1, Len(sorted))

InsertByRevenueDesc(sorted, x) ==
    LET k == Cardinality({j \in DOMAIN sorted : sorted[j].totalRevenue >= x.totalRevenue})
    IN  SubSeq(sorted, 1, k) \o <<x>> \o SubSeq(sorted, k + 1, Len(sorted))

\* .sort((a, b) => b.totalRevenue - a.totalRevenue)
RECURSIVE SortByRevenueDesc(_)
SortByRevenueDesc(s) ==
    IF s = <<>> THEN <<>>
    ELSE InsertByRevenueDesc(SortByRevenueDesc(SubSeq(s, 1, Len(s) - 1)), s[Len(s)])

\* data.revenue > 0 ? profit / data.revenue : 0, through toFixed(4)
MarginToFixed4(profit, revenue) ==
    IF revenue > 0 THEN ToFixed4(profit, revenue) ELSE Ratio(0)

----------------------------------------------------------------------------
(* Aggregator: the rollups of analytics.ts *)

\* Mutant: a date's entry is replaced by the transaction instead of added to
RECURSIVE DailyMap_Overwritten(_)
DailyMap_Overwritten(txs) ==
    IF txs = <<>> THEN <<>>
    ELSE LET tx == txs[Len(txs)]
         IN  MapSet(DailyMap_Overwritten(SubSeq(txs, 1, Len(txs) - 1)), IsoDate(tx.date),
                    [revenue |-> tx.revenue, cost |-> tx.cost])

\* dailyMap after the loop over the transactions (lines 16-26)
RECURSIVE DailyMap(_)
DailyMap(txs) ==
    IF txs = <<>> THEN <<>>
    ELSE LET before == DailyMap(SubSeq(txs, 1, Len(txs) - 1))
             tx == txs[Len(txs)]
             dateKey == IsoDate(tx.date)
             existing == IF MapHas(before, dateKey) THEN MapGet(before, dateKey)
                         ELSE [revenue |-> 0, cost |-> 0]
         IN  MapSet(before, dateKey,
                    [revenue |-> existing.revenue + tx.revenue,
                     cost |-> existing.cost + tx.cost])

DailyEntry(e) ==
    [date |-> e.key,
     revenue |-> ToFixed2(e.value.revenue),
     cost |-> ToFixed2(e.value.cost),
     profit |-> ToFixed2(e.value.revenue - e.value.cost)]

calculateDailyRevenue(txs) ==
    LET dailyMap == DailyMap(txs)
    IN  SortByDate([k \in DOMAIN dailyMap |-> DailyEntry(dailyMap[k])])

\* monthlyMap after the loop over the transactions (lines 42-53)
RECURSIVE MonthlyMap(_)
MonthlyMap(txs) ==
    IF txs = <<>> THEN <<>>
    ELSE LET before == MonthlyMap(SubSeq(txs, 1, Len(txs) - 1))
             tx == txs[Len(txs)]
             monthKey == MonthKey(tx.date)
             existing == IF MapHas(before, monthKey) THEN MapGet(before, monthKey)
                         ELSE [revenue |-> 0, cost |-> 0]
         IN  MapSet(before, monthKey,
                    [revenue |-> existing.revenue + tx.revenue,
                     cost |-> existing.cost + tx.cost])

MonthlyEntry(e) ==
    LET profit == e.value.revenue - e.value.cost
    IN  [month |-> e.key,
         revenue |-> ToFixed2(e.value.revenue),
         cost |-> ToFixed2(e.value.cost),
         profit |-> ToFixed2(profit),
         profitMargin |-> MarginToFixed4(profit, e.value.revenue)]

calculateMonthlyRevenue(txs) ==
    LET monthlyMap == MonthlyMap(txs)
    IN  SortByMonth([k \in DOMAIN monthlyMap |-> MonthlyEntry(monthlyMap[k])])

\* productMap after the loop over the transactions (lines 75-96)
RECURSIVE ProductMap(_)
ProductMap(txs) ==
    IF txs = <<>> THEN <<>>
    ELSE LET before == ProductMap(SubSeq(txs, 1, Len(txs) - 1))
             tx == txs[Len(txs)]
             existing == IF MapHas(before, tx.productName)
                         THEN MapGet(before, tx.productName)
                         ELSE [revenue |-> 0, cost |-> 0, quantity |-> 0, count |-> 0]
         IN  MapSet(before, tx.productName,
                    [revenue |-> existing.revenue + tx.revenue,
                     cost |-> existing.cost + tx.cost,
                     quantity |-> existing.quantity + tx.quantity,
                     count |-> existing.count + 1])

ProductEntry(e) ==
    LET profit == e.value.revenue - e.value.cost
    IN  [productName |-> e.key,
         totalRevenue |-> ToFixed2(e.value.revenue),
         totalCost |-> ToFixed2(e.value.cost),
         totalProfit |-> ToFixed2(profit),
         profitMargin |-> MarginToFixed4(profit, e.value.revenue),
         quantity |-> ToFixed2(e.value.quantity),
         transactionCount |-> e.value.count]

calculateProductPerformance(txs) ==
    LET productMap == ProductMap(txs)
    IN  SortByRevenueDesc([k \in DOMAIN productMap |-> ProductEntry(productMap[k])])

calculateTotals(txs) ==
    LET revenue == SumSeq([k \in DOMAIN txs |-> txs[k].revenue])
        cost == SumSeq([k \in DOMAIN txs |-> txs[k].cost])
        profit == revenue - cost
    IN  [totalRevenue |-> ToFixed2(revenue),
         totalCost |-> ToFixed2(cost),
         totalProfit |-> ToFixed2(profit),
         profitMargin |-> MarginToFixed4(profit, revenue)]

\* Mutant: the three largest shares are summed over two products only
calculateRevenueConcentration_TopTwo(ps) ==
    LET totalRevenue == SumSeq([k \in DOMAIN ps |-> ps[k].totalRevenue])
    IN  IF totalRevenue = 0
        THEN [topProductShare |-> Ratio(0), top3ProductShare |-> Ratio(0),
              diversificationScore |-> Ratio(10000)]
        ELSE LET top3 == SumSeq([k \in DOMAIN slice(ps, 0, 2) |-> ps[k].totalRevenue])
             IN  [topProductShare |-> ToFixed4(ps[1].totalRevenue, totalRevenue),
                  top3ProductShare |-> ToFixed4(top3, totalRevenue),
                  diversificationScore |-> ToFixed4(totalRevenue - top3, totalRevenue)]

\* Mutant: the diversification score is the complement of the top product's share
calculateRevenueConcentration_ComplementOfTop(ps) ==
    LET totalRevenue == SumSeq([k \in DOMAIN ps |-> ps[k].totalRevenue])
    IN  IF totalRevenue = 0
        THEN [topProductShare |-> Ratio(0), top3ProductShare |-> Ratio(0),
              diversificationScore |-> Ratio(10000)]
        ELSE LET top == ps[1].totalRevenue
                 top3 == SumSeq([k \in DOMAIN slice(ps, 0, 3) |-> ps[k].totalRevenue])
             IN  [topProductShare |-> ToFixed4(top, totalRevenue),
                  top3ProductShare |-> ToFixed4(top3, totalRevenue),
                  diversificationScore |-> ToFixed4(totalRevenue - top, totalRevenue)]

\* calculateRevenueConcentration(products) (lines 169-194)
calculateRevenueConcentration(ps) ==
    LET totalRevenue == SumSeq([k \in DOMAIN ps |-> ps[k].totalRevenue])
    IN  IF totalRevenue = 0
        THEN [topProductShare |-> Ratio(0), top3ProductShare |-> Ratio(0),
              diversificationScore |-> Ratio(10000)]
        ELSE LET \* products[0]?.totalRevenue / totalRevenue || 0: the list is not
                 \* empty here, and a quotient of 0 stays 0
                 top == ps[1].totalRevenue
                 top3 == SumSeq([k \in DOMAIN slice(ps, 0, 3) |-> ps[k].totalRevenue])
             IN  [topProductShare |-> ToFixed4(top, totalRevenue),
                  top3ProductShare |-> ToFixed4(top3, totalRevenue),
                  \* 1 - top3ProductShare, rounded on its own
                  diversificationScore |-> ToFixed4(totalRevenue - top3, totalRevenue)]

----------------------------------------------------------------------------
(* Health scorer: calculateGrowthRate and calculateBusinessHealth *)

Min(a, b) == IF a < b THEN a ELSE b
Max(a, b) == IF a > b THEN a ELSE b

\* Math.round of the exact value p/q (q > 0): the nearest integer, the larger on a tie
MathRound(p, q) == (2 * p + q) \div (2 * q)

\* calculateGrowthRate(monthlyRevenue) (lines 199-210), a ratio over 10000
calculateGrowthRate(months) ==
    IF Len(months) < 2 THEN Ratio(0)
    ELSE LET sorted == SortByMonth(months)
             firstMonth == sorted[1]
             lastMonth == sorted[Len(sorted)]
         IN  IF firstMonth.revenue = 0 THEN Ratio(0)
             ELSE ToFixed4(lastMonth.revenue - firstMonth.revenue, firstMonth.revenue)

\* Component scores before rounding, in hundredths of a point
\* Math.min(profitMargin * 100 * 3, 100)
ProfitabilityScore(profitMargin) == Min(3 * profitMargin.n, 10000)
\* Math.min(Math.max((growthRate + 0.5) * 100, 0), 100)
GrowthScore(growthRate) == Min(Max(growthRate.n + 5000, 0), 10000)
\* Math.max(100 - (anomalyCount * 10), 0)
StabilityScore(count) == Max(10000 - 1000 * count, 0)
\* diversificationScore * 100
DiversificationScoreNormalized(score) == score.n

\* Mutant: the weighted sum is returned without the clamp to [0, 100]
calculateBusinessHealth_Unclamped(totalsArg, ps, months, count) ==
    LET p == ProfitabilityScore(totalsArg.profitMargin)
        g == GrowthScore(calculateGrowthRate(months))
        st == StabilityScore(count)
        dv == DiversificationScoreNormalized(calculateRevenueConcentration(ps).diversificationScore)
    IN  [score |-> MathRound(30 * p + 25 * g + 25 * st + 20 * dv, 10000),
         profitabilityScore |-> MathRound(p, 100),
         growthScore |-> MathRound(g, 100),
         stabilityScore |-> MathRound(st, 100),
         diversificationScore |-> MathRound(dv, 100)]

\* Mutant: growth is scored from 0 at no growth, so that no growth loses nothing
\* against a saturated score of the other components
calculateBusinessHealth_GrowthFromHalf(totalsArg, ps, months, count) ==
    LET p == ProfitabilityScore(totalsArg.profitMargin)
        g == Min(Max(calculateGrowthRate(months).n + 10000, 0), 10000)
        st == StabilityScore(count)
        dv == DiversificationScoreNormalized(calculateRevenueConcentration(ps).diversificationScore)
        score == 30 * p + 25 * g + 25 * st + 20 * dv
    IN  [score |-> MathRound(Min(Max(score, 0), 1000000), 10000),
         profitabilityScore |-> MathRound(p, 100),
         growthScore |-> MathRound(g, 100),
         stabilityScore |-> MathRound(st, 100),
         diversificationScore |-> MathRound(dv, 100)]

\* calculateBusinessHealth(totals, products, monthlyRevenue, anomalyCount)
\* (lines 215-246); the weighted score is in ten-thousandths of a point
calculateBusinessHealth(totalsArg, ps, months, count) ==
    LET profitabilityScore == ProfitabilityScore(totalsArg.profitMargin)
        growthScore == GrowthScore(calculateGrowthRate(months))
        stabilityScore == StabilityScore(count)
        diversificationScoreNormalized ==
            DiversificationScoreNormalized(calculateRevenueConcentration(ps).diversificationScore)
        score == 30 * profitabilityScore + 25 * growthScore + 25 * stabilityScore
                    + 20 * diversificationScoreNormalized
    IN  [score |-> MathRound(Min(Max(score, 0), 1000000), 10000),
         profitabilityScore |-> MathRound(profitabilityScore, 100),
         growthScore |-> MathRound(growthScore, 100),
         stabilityScore |-> MathRound(stabilityScore, 100),
         diversificationScore |-> MathRound(diversificationScoreNormalized, 100)]

----------------------------------------------------------------------------
(* Aggregator: inputs *)

Date(y, m, d) == [year |-> y, month |-> m, day |-> d]

\* A Transaction (types/index.ts); quantity, revenue and cost in thousandths
Transaction(date, productName, quantity, revenue, cost) ==
    [date |-> date, productName |-> productName, quantity |-> quantity,
     revenue |-> revenue, cost |-> cost]

\* Day and product of a sale: two days of one month and a day of the next,
\* product names that differ in case only
Sales ==
    { <<Date(2024, 1, 1), "Espresso">>, <<Date(2024, 1, 1), "Latte">>,
      <<Date(2024, 1, 2), "Espresso">>, <<Date(2024, 1, 2), "espresso">>,
      <<Date(2024, 2, 1), "Cappuccino">> }

\* <<revenue, cost>>: whole cents (35.00, 8.00), (25.00, 7.50), and amounts
\* finer than a cent (0.125, 0.375) as parseFloat of an uploaded cell yields
Amounts == { <<35000, 8000>>, <<25000, 7500>>, <<125, 375>> }

LedgerTransactions ==
    { Transaction(s[1], s[2], 1000, a[1], a[2]) : s \in Sales, a \in Amounts }

\* One day of a four-product catalogue sold at 7.00 or 9.00
CatalogueTransactions ==
    { Transaction(Date(2024, 1, 1), name, 1000, revenue, 2000) :
        name \in {"Espresso", "Latte", "Cappuccino", "Mocha"},
        revenue \in {7000, 9000} }

SeqsUpTo(S, n) == UNION { [1..k -> S] : k \in 0..n }

TransactionLists ==
    SeqsUpTo(LedgerTransactions, MaxTx) \cup SeqsUpTo(CatalogueTransactions, MaxCatalogueTx)

ProductNames == <<"Espresso", "Latte", "Cappuccino", "Mocha", "Americano", "Macchiato">>

\* A ProductPerformance entry as a caller may build it: only totalRevenue is read
ProductOf(name, revenue) ==
    [productName |-> name, totalRevenue |-> revenue, totalCost |-> 0,
     totalProfit |-> revenue, profitMargin |-> MarginToFixed4(revenue, revenue),
     quantity |-> 1000, transactionCount |-> 1]

\* Product lists in any order of revenue: 0.00, 10.00, 20.00, 90.00
ProductLists ==
    { [k \in DOMAIN rs |-> ProductOf(ProductNames[k], rs[k])] :
        rs \in SeqsUpTo({0, 10000, 20000, 90000}, MaxProducts) }

----------------------------------------------------------------------------
(* Aggregator: computeAnalytics step by step, and a direct call of
   calculateRevenueConcentration *)

\* Totals as calculateTotals returns them for a revenue of 100.00 and a profit
\* margin of k/10000
TotalsOf(k) ==
    [totalRevenue |-> 100000, totalCost |-> 100000 - 10 * k, totalProfit |-> 10 * k,
     profitMargin |-> Ratio(k)]

\* Margins: a loss of twice the revenue, none, 0.5%, either side of 1/3, 50%, 100%
HealthTotals == { TotalsOf(k) : k \in {-20000, 0, 50, 3333, 3334, 5000, 10000} }

\* No product, two products (top-3 share 1), four equal products (top-3 share 0.75)
HealthProducts ==
    { <<>>,
      <<ProductOf("Espresso", 90000), ProductOf("Latte", 10000)>>,
      <<ProductOf("Espresso", 10000), ProductOf("Latte", 10000),
        ProductOf("Cappuccino", 10000), ProductOf("Mocha", 10000)>> }

\* A MonthlyRevenue entry without cost
MonthOf(month, revenue) ==
    [month |-> month, revenue |-> revenue, cost |-> 0, profit |-> revenue,
     profitMargin |-> MarginToFixed4(revenue, revenue)]

\* Monthly series: none, one month, no growth, +50% given newest first, -80%,
\* growth from nothing, +300%
HealthMonths ==
    { <<>>,
      <<MonthOf("2024-01", 100000)>>,
      <<MonthOf("2024-01", 100000), MonthOf("2024-02", 100000)>>,
      <<MonthOf("2024-02", 150000), MonthOf("2024-01", 100000)>>,
      <<MonthOf("2024-01", 100000), MonthOf("2024-02", 20000)>>,
      <<MonthOf("2024-01", 0), MonthOf("2024-02", 100000)>>,
      <<MonthOf("2024-01", 100000), MonthOf("2024-02", 400000)>> }

HealthArguments ==
    { [totals |-> t, products |-> ps, monthlyRevenue |-> ms] :
        t \in HealthTotals, ps \in HealthProducts, ms \in HealthMonths }

\* anomalyCount of a direct call, and of computeAnalytics (0 is its default)
DirectAnomalyCounts == {0, 1, 10, 11}
PipelineAnomalyCounts == {0, 11}

AnalyticsInit ==
    /\ input = OtherMetrics
    /\ InsightAtRest
    /\ DetectIdle
    /\ ForecastIdle
    /\ RouteIdle
    /\ FrameIdle
    /\ totals = <<>>
    /\ dailyRevenue = <<>>
    /\ monthlyRevenue = <<>>
    /\ products = <<>>
    /\ concentration = <<>>
    /\ anomalyCount = 0
    /\ healthMetrics = <<>>
    /\ \/ /\ transactions \in TransactionLists
          /\ productsArg = <<>>
          /\ healthArgs = <<>>
          /\ stage = "start"
       \/ /\ transactions = <<>>
          /\ productsArg \in ProductLists
          /\ healthArgs = <<>>
          /\ stage = "direct"
       \/ /\ transactions = <<>>
          /\ productsArg = <<>>
          /\ healthArgs \in HealthArguments
          /\ stage = "healthCall"

CallCalculateTotals ==
    /\ stage = "start"
    /\ totals' = calculateTotals(transactions)
    /\ stage' = "totals"
    /\ UNCHANGED <<transactions, productsArg, dailyRevenue, monthlyRevenue, products,
                   concentration, insightVars, scorerVars>>

CallCalculateDailyRevenue ==
    /\ stage = "totals"
    /\ dailyRevenue' = calculateDailyRevenue(transactions)
    /\ stage' = "daily"
    /\ UNCHANGED <<transactions, productsArg, totals, monthlyRevenue, products,
                   concentration, insightVars, scorerVars>>

CallCalculateMonthlyRevenue ==
    /\ stage = "daily"
    /\ monthlyRevenue' = calculateMonthlyRevenue(transactions)
    /\ stage' = "monthly"
    /\ UNCHANGED <<transactions, productsArg, totals, dailyRevenue, products,
                   concentration, insightVars, scorerVars>>

CallCalculateProductPerformance ==
    /\ stage = "monthly"
    /\ products' = calculateProductPerformance(transactions)
    /\ stage' = "products"
    /\ UNCHANGED <<transactions, productsArg, totals, dailyRevenue, monthlyRevenue,
                   concentration, insightVars, scorerVars>>

\* calculateBusinessHealth hands the whole product list to the scorer
CallCalculateRevenueConcentration ==
    /\ stage = "products"
    /\ concentration' = calculateRevenueConcentration(products)
    /\ stage' = "concentration"
    /\ UNCHANGED <<transactions, productsArg, totals, dailyRevenue, monthlyRevenue,
                   products, insightVars, scorerVars>>

\* A caller hands its own product list to the exported scorer
CallConcentrationOnList ==
    /\ stage = "direct"
    /\ concentration' = calculateRevenueConcentration(productsArg)
    /\ stage' = "directDone"
    /\ UNCHANGED <<transactions, productsArg, totals, dailyRevenue, monthlyRevenue,
                   products, insightVars, scorerVars>>

\* computeAnalytics hands its totals, products and monthly series to the scorer
CallCalculateBusinessHealth(count) ==
    /\ stage = "concentration"
    /\ anomalyCount' = count
    /\ healthArgs' = [totals |-> totals, products |-> products,
                      monthlyRevenue |-> monthlyRevenue]
    /\ healthMetrics' = calculateBusinessHealth(totals, products, monthlyRevenue, count)
    /\ stage' = "health"
    /\ UNCHANGED <<transactions, productsArg, totals, dailyRevenue, monthlyRevenue,
                   products, concentration, insightVars, detectVars, forecastVars,
                   routeVars, frameVars>>

\* A caller hands its own arguments to the exported scorer
CallHealthOnArguments(count) ==
    /\ stage = "healthCall"
    /\ anomalyCount' = count
    /\ healthMetrics' = calculateBusinessHealth(healthArgs.totals, healthArgs.products,
                                                healthArgs.monthlyRevenue, count)
    /\ stage' = "healthDone"
    /\ UNCHANGED <<transactions, productsArg, totals, dailyRevenue, monthlyRevenue,
                   products, concentration, healthArgs, insightVars, detectVars,
                   forecastVars,
                   routeVars, frameVars>>

HealthOfAnalytics == \E count \in PipelineAnomalyCounts : CallCalculateBusinessHealth(count)
HealthOfArguments == \E count \in DirectAnomalyCounts : CallHealthOnArguments(count)

AnalyticsNext ==
    \/ CallCalculateTotals
    \/ CallCalculateDailyRevenue
    \/ CallCalculateMonthlyRevenue
    \/ CallCalculateProductPerformance
    \/ CallCalculateRevenueConcentration
    \/ CallConcentrationOnList
    \/ HealthOfAnalytics
    \/ HealthOfArguments

SpecAnalytics == AnalyticsInit /\ [][AnalyticsNext]_vars

----------------------------------------------------------------------------
(* Anomaly detector: numbers and dates *)

RECURSIVE GCD(_, _)
GCD(a, b) == IF b = 0 THEN a ELSE GCD(b, a % b)

\* Greatest common divisor of the magnitudes of a sequence of integers (0 if all are 0)
RECURSIVE GcdOfSeq(_)
GcdOfSeq(s) == IF s = <<>> THEN 0 ELSE GCD(Abs(Head(s)), GcdOfSeq(Tail(s)))

\* The integer root between lo and hi: lo * lo <= x < (hi + 1) * (hi + 1)
RECURSIVE IsqrtBetween(_, _, _)
IsqrtBetween(x, lo, hi) ==
    IF lo = hi THEN lo
    ELSE LET mid == (lo + hi + 1) \div 2
         IN  IF mid * mid <= x THEN IsqrtBetween(x, mid, hi)
                               ELSE IsqrtBetween(x, lo, mid - 1)

\* Math.floor(Math.sqrt(x)) for 0 <= x < 46340 * 46340
Isqrt(x) == IsqrtBetween(x, 0, 46339)

\* The number a string of decimal digits denotes
RECURSIVE ParseNat(_)
ParseNat(str) ==
    IF str = "" THEN 0
    ELSE 10 * ParseNat(SubSeq(str, 1, Len(str) - 1))
           + (CHOOSE k \in 0..9 : Digits[k + 1] = SubSeq(str, Len(str), Len(str)))

IsLeapYear(y) == (y % 4 = 0 /\ y % 100 # 0) \/ y % 400 = 0

\* Leap days before 1 January of year y
LeapDaysBefore(y) == ((y - 1) \div 4) - ((y - 1) \div 100) + ((y - 1) \div 400)

DaysBeforeMonth == <<0, 31, 59, 90, 120, 151, 181, 212, 243, 273, 304, 334>>

\* new Date('YYYY-MM-DD').getTime() in whole days since 1970-01-01 (UTC midnight)
DateTime(date) ==
    LET y == ParseNat(SubSeq(date, 1, 4))
        m == ParseNat(SubSeq(date, 6, 7))
        d == ParseNat(SubSeq(date, 9, 10))
    IN  365 * (y - 1970) + (LeapDaysBefore(y) - LeapDaysBefore(1970))
          + DaysBeforeMonth[m] + (IF m > 2 /\ IsLeapYear(y) THEN 1 ELSE 0) + (d - 1)

WeekdayNames ==
    <<"Sunday", "Monday", "Tuesday", "Wednesday", "Thursday", "Friday", "Saturday">>

MonthNames ==
    <<"Jan", "Feb", "Mar", "Apr", "May", "Jun", "Jul", "Aug", "Sep", "Oct", "Nov", "Dec">>

\* toLocaleDateString('en-US', { weekday: 'long' }), the process in UTC
WeekdayLong(date) == WeekdayNames[((DateTime(date) + 4) % 7) + 1]

\* toLocaleDateString('en-US', { month: 'short', day: 'numeric' })
MonthDayShort(date) ==
    MonthNames[ParseNat(SubSeq(date, 6, 7))] \o " " \o NatToString(ParseNat(SubSeq(date, 9, 10)))

----------------------------------------------------------------------------
(* Anomaly detector: detectAnomalies *)
(* The mean is the exact fraction [n, d].  A standard deviation is the      *)
(* record [g, q, m, len] standing for (g/m) * sqrt(q/len), where g is the   *)
(* common divisor of the deviations m*v - n; a z-score is the record        *)
(* [k, n, q] standing for k * sqrt(n/q).  Comparisons of a z-score are made *)
(* on its square.                                                           *)

\* calculateMean(values) (lines 8-12)
calculateMean(values) ==
    IF Len(values) = 0 THEN [n |-> 0, d |-> 1]
    ELSE [n |-> SumSeq(values), d |-> Len(values)]

\* Mutant: the sample standard deviation (divide by N - 1)
calculateStandardDeviation_Sample(values, mean) ==
    IF Len(values) <= 1 THEN [g |-> 0, q |-> 0, m |-> 1, len |-> 1]
    ELSE LET diffs == [i \in DOMAIN values |-> mean.d * values[i] - mean.n]
             g == GcdOfSeq(diffs)
         IN  IF g = 0 THEN [g |-> 0, q |-> 0, m |-> mean.d, len |-> Len(values) - 1]
             ELSE [g |-> g,
                   q |-> SumSeq([i \in DOMAIN diffs |-> (diffs[i] \div g) * (diffs[i] \div g)]),
                   m |-> mean.d,
                   len |-> Len(values) - 1]

\* calculateStandardDeviation(values, mean) (lines 17-24)
calculateStandardDeviation(values, mean) ==
    IF Len(values) = 0 THEN [g |-> 0, q |-> 0, m |-> 1, len |-> 1]
    ELSE LET diffs == [i \in DOMAIN values |-> mean.d * values[i] - mean.n]
             g == GcdOfSeq(diffs)
         IN  IF g = 0 THEN [g |-> 0, q |-> 0, m |-> mean.d, len |-> Len(values)]
             ELSE [g |-> g,
                   q |-> SumSeq([i \in DOMAIN diffs |-> (diffs[i] \div g) * (diffs[i] \div g)]),
                   m |-> mean.d,
                   len |-> Len(values)]

ZeroZ == [k |-> 0, n |-> 1, q |-> 1]
\* 0 / 0
NaNZ == [k |-> 0, n |-> 0, q |-> 0]

\* Mutant: no guard against a standard deviation of 0
calculateZScore_Unguarded(value, mean, stdDev) ==
    IF stdDev.q = 0 THEN NaNZ
    ELSE [k |-> (mean.d * value - mean.n) \div stdDev.g, n |-> stdDev.len, q |-> stdDev.q]

\* calculateZScore(value, mean, stdDev) (lines 30-33)
calculateZScore(value, mean, stdDev) ==
    IF stdDev.q = 0 THEN ZeroZ
    ELSE [k |-> (mean.d * value - mean.n) \div stdDev.g, n |-> stdDev.len, q |-> stdDev.q]

\* Math.abs(z) >= c for a number c = [n, d], d > 0
AbsAtLeast(z, c) ==
    IF z.q = 0 THEN FALSE   \* NaN >= c
    ELSE IF c.n <= 0 THEN TRUE
    ELSE LET square == z.k * z.k * z.n
             g == GCD(square, z.q)
         IN  (square \div g) * c.d * c.d >= c.n * c.n * (z.q \div g)

\* Mutant: 'high' from 2.5 on
determineSeverity_HighFrom2_5(z) ==
    IF AbsAtLeast(z, [n |-> 5, d |-> 2]) THEN "high"
    ELSE "low"

\* Mutant: 'medium' from 2 on
determineSeverity_MediumFrom2(z) ==
    IF AbsAtLeast(z, [n |-> 3, d |-> 1]) THEN "high"
    ELSE IF AbsAtLeast(z, [n |-> 2, d |-> 1]) THEN "medium"
    ELSE "low"

\* determineSeverity(zScore) (lines 38-44)
determineSeverity(z) ==
    IF AbsAtLeast(z, [n |-> 3, d |-> 1]) THEN "high"
    ELSE IF AbsAtLeast(z, [n |-> 5, d |-> 2]) THEN "medium"
    ELSE "low"

\* parseFloat(zScore.toFixed(2)), in hundredths
ZToFixed2(z) ==
    LET square == z.k * z.k * z.n
        g == GCD(square, z.q)
        r == (Isqrt((40000 * (square \div g)) \div (z.q \div g)) + 1) \div 2
    IN  IF z.k < 0 THEN -r ELSE r

\* Math.abs(((revenue - mean) / mean) * 100).toFixed(1)
PercentDiff(revenue, mean) ==
    LET diff == Abs(mean.d * revenue - mean.n)
    IN  IF mean.n = 0 THEN (IF diff = 0 THEN "NaN" ELSE "Infinity")
        ELSE LET t == ScaledDiv(diff, Abs(mean.n), 3)
             IN  NatToString(t \div 10) \o "." \o Digits[(t % 10) + 1]

\* generateExplanation(date, revenue, mean, type, severity) (lines 49-76)
generateExplanation(date, revenue, mean, type, severity) ==
    LET direction == IF type = "spike" THEN "higher" ELSE "lower"
        severityText == CASE severity = "high" -> "significantly"
                          [] severity = "medium" -> "notably"
                          [] OTHER -> "moderately"
    IN  "Revenue on " \o WeekdayLong(date) \o ", " \o MonthDayShort(date) \o " was "
          \o severityText \o " " \o direction \o " than average ("
          \o PercentDiff(revenue, mean) \o "% deviation). This may indicate "
          \o (IF type = "spike"
              THEN "exceptional sales performance, promotion impact, or seasonal demand"
              ELSE "operational issues, reduced traffic, or external factors")
          \o "."

\* parseFloat((n/d).toFixed(2)) of an amount in mills
RatioToFixed2(n, d) == 10 * RoundDiv(n, 10 * d)

\* The Anomaly pushed for a flagged day (lines 117-126)
AnomalyOf(day, mean, z) ==
    LET type == IF z.k > 0 THEN "spike" ELSE "drop"
        severity == determineSeverity(z)
    IN  [date |-> day.date,
         revenue |-> day.revenue,
         expectedRevenue |-> RatioToFixed2(mean.n, mean.d),
         deviation |-> RatioToFixed2(mean.d * day.revenue - mean.n, mean.d),
         zScore |-> ZToFixed2(z),
         severity |-> severity,
         type |-> type,
         explanation |-> generateExplanation(day.date, day.revenue, mean, type, severity)]

SeverityOrder(severity) ==
    CASE severity = "high" -> 3 [] severity = "medium" -> 2 [] OTHER -> 1

\* Mutant: anomalies are compared by severity only
AnomalyCompare_SeverityOnly(a, b) ==
    SeverityOrder(b.severity) - SeverityOrder(a.severity)

\* The comparator of anomalies.sort (lines 131-137)
AnomalyCompare(a, b) ==
    LET severityDiff == SeverityOrder(b.severity) - SeverityOrder(a.severity)
    IN  IF severityDiff # 0 THEN severityDiff
        ELSE Abs(b.zScore) - Abs(a.zScore)

InsertAnomaly(sorted, x) ==
    LET k == Cardinality({j \in DOMAIN sorted : AnomalyCompare(sorted[j], x) <= 0})
    IN  SubSeq(sorted, 1, k) \o <<x>> \o SubSeq(sorted, k + 1, Len(sorted))

\* anomalies.sort(...) (stable)
RECURSIVE SortAnomalies(_)
SortAnomalies(s) ==
    IF s = <<>> THEN <<>>
    ELSE InsertAnomaly(SortAnomalies(SubSeq(s, 1, Len(s) - 1)), s[Len(s)])

\* A returned statistic: parseFloat(stdDev.toFixed(2)) of the standard deviation sd
\* (an irrational number in general, kept as the root it is the rounding of)
StdDevToFixed2(sd) == [toFixed2 |-> sd]

\* detectAnomalies(dailyRevenue, threshold) (lines 85-146)
detectAnomalies(days, t) ==
    IF Len(days) = 0
    THEN [anomalies |-> <<>>, mean |-> 0,
          stdDev |-> StdDevToFixed2(calculateStandardDeviation(<<>>, calculateMean(<<>>))),
          threshold |-> t]
    ELSE LET revenues == [i \in DOMAIN days |-> days[i].revenue]
             mean == calculateMean(revenues)
             stdDev == calculateStandardDeviation(revenues, mean)
             flagged == SelectSeq(days,
                          LAMBDA day : AbsAtLeast(calculateZScore(day.revenue, mean, stdDev), t))
             anomalies == [i \in DOMAIN flagged |->
                             AnomalyOf(flagged[i], mean,
                                       calculateZScore(flagged[i].revenue, mean, stdDev))]
         IN  [anomalies |-> SortAnomalies(anomalies),
              mean |-> RatioToFixed2(mean.n, mean.d),
              stdDev |-> StdDevToFixed2(stdDev),
              threshold |-> t]

----------------------------------------------------------------------------
(* Anomaly detector: detectAnomalyPatterns *)

InsertByTime(sorted, x) ==
    LET k == Cardinality({j \in DOMAIN sorted : DateTime(sorted[j].date) <= DateTime(x.date)})
    IN  SubSeq(sorted, 1, k) \o <<x>> \o SubSeq(sorted, k + 1, Len(sorted))

\* [...anomalies].sort((a, b) => new Date(a.date).getTime() - new Date(b.date).getTime())
RECURSIVE SortByTime(_)
SortByTime(s) ==
    IF s = <<>> THEN <<>>
    ELSE InsertByTime(SortByTime(SubSeq(s, 1, Len(s) - 1)), s[Len(s)])

\* The streak pushed for currentStreak (lines 241-246)
StreakOf(currentStreak) ==
    [startDate |-> currentStreak[1].date,
     endDate |-> currentStreak[Len(currentStreak)].date,
     length |-> Len(currentStreak),
     type |-> currentStreak[1].type]

\* streaks and currentStreak after the loop has handled sorted[i] (lines 228-250);
\* i = 1 is the state before the loop
RECURSIVE StreakScan(_, _)
StreakScan(sorted, i) ==
    IF i = 1 THEN [streaks |-> <<>>, currentStreak |-> <<sorted[1]>>]
    ELSE LET before == StreakScan(sorted, i - 1)
             prev == sorted[i - 1]
             curr == sorted[i]
             dayDiff == DateTime(curr.date) - DateTime(prev.date)
         IN  IF dayDiff <= 2 /\ prev.type = curr.type
             THEN [streaks |-> before.streaks,
                   currentStreak |-> Append(before.currentStreak, curr)]
             ELSE [streaks |-> IF Len(before.currentStreak) >= 2
                               THEN Append(before.streaks, StreakOf(before.currentStreak))
                               ELSE before.streaks,
                   currentStreak |-> <<curr>>]

\* Mutant: the streak still open at the end of the list is not reported
detectAnomalyPatterns_OpenStreakDropped(anomalies) ==
    IF Len(anomalies) = 0 THEN [consecutiveStreaks |-> <<>>]
    ELSE [consecutiveStreaks |->
             StreakScan(SortByTime(anomalies), Len(anomalies)).streaks]

\* detectAnomalyPatterns(anomalies) (lines 200-261)
detectAnomalyPatterns(anomalies) ==
    IF Len(anomalies) = 0 THEN [consecutiveStreaks |-> <<>>]
    ELSE LET sorted == SortByTime(anomalies)
             last == StreakScan(sorted, Len(sorted))
         IN  [consecutiveStreaks |->
                 IF Len(last.currentStreak) >= 2
                 THEN Append(last.streaks, StreakOf(last.currentStreak))
                 ELSE last.streaks]

----------------------------------------------------------------------------
(* Anomaly detector: inputs and calls *)

\* Consecutive calendar days across the end of a month
Days ==
    <<"2024-01-22", "2024-01-23", "2024-01-24", "2024-01-25", "2024-01-26", "2024-01-27",
      "2024-01-28", "2024-01-29", "2024-01-30", "2024-01-31", "2024-02-01", "2024-02-02",
      "2024-02-03", "2024-02-04", "2024-02-05", "2024-02-06", "2024-02-07", "2024-02-08",
      "2024-02-09", "2024-02-10">>

\* A DailyRevenue entry without cost
DayOf(date, revenue) == [date |-> date, revenue |-> revenue, cost |-> 0, profit |-> revenue]

\* The series of the first days with the given revenues, in date order
SeriesOf(revenues) == [i \in DOMAIN revenues |-> DayOf(Days[i], revenues[i])]

\* The same entries, the first r moved to the end
Rotate(s, r) == SubSeq(s, r + 1, Len(s)) \o SubSeq(s, 1, r)

\* Every series of up to MaxDays days of 100.00, 200.00 or 1000.00
ShortSeries ==
    { SeriesOf(rs) : rs \in SeqsUpTo({100000, 200000, 1000000}, MaxDays) }

\* Revenues of longer series: seven days of 100 and one of 1000; ten equal days;
\* a day 2.496 deviations above the mean; ten days of 100 and one of 1000;
\* eighteen days with deviations of 3.2, -2.6, 0.6, -0.7 and -0.04
LongRevenues ==
    { <<100000, 100000, 100000, 100000, 100000, 100000, 100000, 1000000>>,
      <<100000, 100000, 100000, 100000, 100000, 100000, 100000, 100000, 100000, 100000>>,
      <<100000, 100000, 200000, 200000, 200000, 200000, 300000, 700000>>,
      <<100000, 100000, 100000, 100000, 100000, 100000, 100000, 100000, 100000, 100000,
        1000000>>,
      <<500000, 500000, 500000, 500000, 500000, 500000, 500000, 500000, 500000, 500000,
        500000, 500000, 500000, 500000, 600000, 400000, 1000000, 100000>> }

\* The longer series with their entries in every rotation of the date order
LongSeries ==
    { Rotate(SeriesOf(rs), r) : rs \in LongRevenues, r \in 0..7 }

\* Revenues of series with one day apart from the rest, of 4, 5, 9 and 10 days:
\* the day lies sqrt(N - 1) deviations above the mean
OutlierRevenues ==
    { <<100000, 100000, 100000, 1000000>>,
      <<100000, 100000, 100000, 100000, 1000000>>,
      <<100000, 100000, 100000, 100000, 100000, 100000, 100000, 100000, 1000000>>,
      <<100000, 100000, 100000, 100000, 100000, 100000, 100000, 100000, 100000,
        1000000>> }

OutlierSeries ==
    { Rotate(SeriesOf(rs), r) : rs \in OutlierRevenues, r \in 0..3 }

\* Every series of four days of 0.00, 100.00 or 1000.00
FourDaySeries ==
    { SeriesOf(rs) : rs \in [1..4 -> {0, 100000, 1000000}] }

DetectorSeries == ShortSeries \cup LongSeries \cup OutlierSeries \cup FourDaySeries

\* Thresholds: 0, 1, 1.732, 2 (the default), 2.5, 3
Thresholds ==
    { [n |-> 0, d |-> 1], [n |-> 1, d |-> 1], [n |-> 433, d |-> 250],
      [n |-> 2, d |-> 1], [n |-> 5, d |-> 2], [n |-> 3, d |-> 1] }

\* An Anomaly of which detectAnomalyPatterns reads the date and the type
AnomalyOn(date, type) ==
    [date |-> date, revenue |-> 0, expectedRevenue |-> 0, deviation |-> 0, zScore |-> 0,
     severity |-> "low", type |-> type, explanation |-> ""]

\* Anomaly lists in any order of dates 1, 2 and 3 days apart, dates repeated
AnomalyLists ==
    SeqsUpTo({ AnomalyOn(date, type) :
                 date \in {"2024-01-30", "2024-01-31", "2024-02-02", "2024-02-05"},
                 type \in {"spike", "drop"} }, MaxAnomalies)

AnomalyInit ==
    /\ input = OtherMetrics
    /\ InsightAtRest
    /\ AggIdle
    /\ ForecastIdle
    /\ RouteIdle
    /\ FrameIdle
    /\ threshold = <<>>
    /\ detection = <<>>
    /\ patterns = <<>>
    /\ \/ /\ series \in DetectorSeries
          /\ anomaliesArg = <<>>
          /\ detectStage = "start"
       \/ /\ series = <<>>
          /\ anomaliesArg \in AnomalyLists
          /\ detectStage = "patternsCall"

CallDetectAnomalies(t) ==
    /\ detectStage = "start"
    /\ threshold' = t
    /\ detection' = detectAnomalies(series, t)
    /\ detectStage' = "detected"
    /\ UNCHANGED <<series, anomaliesArg, patterns, insightVars, aggVars, healthVars,
                   forecastVars,
                   routeVars, frameVars>>

\* The anomalies of a detection are searched for streaks
CallPatternsOnDetection ==
    /\ detectStage = "detected"
    /\ anomaliesArg' = detection.anomalies
    /\ patterns' = detectAnomalyPatterns(detection.anomalies)
    /\ detectStage' = "patterns"
    /\ UNCHANGED <<series, threshold, detection, insightVars, aggVars, healthVars,
                   forecastVars,
                   routeVars, frameVars>>

\* A caller hands its own anomaly list to the exported function
CallPatternsOnList ==
    /\ detectStage = "patternsCall"
    /\ patterns' = detectAnomalyPatterns(anomaliesArg)
    /\ detectStage' = "patternsDone"
    /\ UNCHANGED <<series, threshold, detection, anomaliesArg, insightVars, aggVars,
                   healthVars, forecastVars,
                   routeVars, frameVars>>

DetectWithThreshold == \E t \in Thresholds : CallDetectAnomalies(t)

AnomalyNext ==
    \/ DetectWithThreshold
    \/ CallPatternsOnDetection
    \/ CallPatternsOnList

SpecAnomaly == AnomalyInit /\ [][AnomalyNext]_vars

----------------------------------------------------------------------------
(* Claims about the insight synthesizer *)

SameInsightResult(a, b) ==
    /\ a.insights = b.insights
    /\ a.executiveSummary = b.executiveSummary
    /\ a.keyMetrics = b.keyMetrics

\* The texts of the collaborator that are JSON
JsonTexts == {TextNull, TextNumber, TextEmptyObject, TextWellFormed, TextNoInsights,
              TextNoSummary, TextSevenInsights, TextBadEnum}

\* The response carries no text: no JSON body, no content array, an empty one,
\* a first block without text, or an empty text
NoTextContent(r) ==
    \/ ~r.bodyIsJson
    \/ ~r.hasContent
    \/ r.blocks = <<>>
    \/ ~r.blocks[1].hasText
    \/ r.blocks[1].text = ""

\* The failure outcomes of the external call: the request throws, the status is
\* not 2xx, there is no text content, or the text is not JSON
FailureOutcome(r) ==
    \/ r.rejected
    \/ ~r.ok
    \/ NoTextContent(r)
    \/ r.blocks[1].text \notin JsonTexts

\* C1: for every failure outcome of the external call (the request throws, a
\* non-2xx status, no text content, text that is not JSON) generateInsights does
\* not raise: it completes with exactly the insights, executiveSummary and
\* keyMetrics that generateFallbackInsights(metrics) gives.
C1_FailureGivesFallback ==
    /\ pc \in {"idle", "fetch", "checkOk", "json", "parse", "catch", "done"}
    /\ (pc = "done" /\ FailureOutcome(response))
           => SameInsightResult(result, generateFallbackInsights(metrics, clock))

\* C1 witness: a 2xx response whose text is not JSON, answered with the rule set
C1_Witness ==
    /\ pc = "done"
    /\ response.ok
    /\ content = TextProse
    /\ FailureOutcome(response)
    /\ result.insights.type = "array"
    /\ Len(result.insights.items) >= 3

IsBusinessInsight(i) ==
    /\ i.category \in InsightCategories
    /\ i.priority \in InsightPriorities

WellShaped(r) ==
    /\ r.insights.type = "array"
    /\ \A k \in DOMAIN r.insights.items : IsBusinessInsight(r.insights.items[k])
    /\ r.executiveSummary.type = "string"

\* C2: whatever the collaborator answers, the result of generateInsights has the
\* same structured shape: insights is a list of BusinessInsight records with
\* category and priority in their enumerated sets, executiveSummary is a string.
C2_AlwaysWellShaped ==
    pc = "done" => WellShaped(result)

\* C3: one invocation of generateInsights issues exactly one request: after a
\* failed attempt it falls back without a second request, and after a successful
\* attempt the fallback is never run.
C3_SingleAttempt ==
    /\ requests <= 1
    /\ fallbackRuns <= 1
    /\ pc \in {"checkOk", "json", "parse", "catch", "done"} => requests = 1
    /\ (pc = "done" /\ lastCall = "try") => fallbackRuns = 0
    /\ (pc = "done" /\ lastCall = "catch") => fallbackRuns = 1

\* C3 witness: a response arrived, the attempt failed, the fallback ran once
C3_Witness ==
    /\ pc = "done"
    /\ lastCall = "catch"
    /\ response.ok
    /\ requests = 1
    /\ fallbackRuns = 1

\* The <<category, priority>> pairs the rule set of the claim yields, group by group
ExpectedConcentration(m) ==
    LET s == m.revenueConcentration.top3ProductShare
    IN  IF s.d > 0 /\ 10 * s.n > 7 * s.d THEN << <<"risk", "high">> >> ELSE <<>>
ExpectedMargin(m) ==
    LET pm == m.profitMargin
    IN  IF pm.d > 0 /\ 100 * pm.n < 15 * pm.d THEN << <<"warning", "high">> >>
        ELSE IF pm.d > 0 /\ 100 * pm.n > 30 * pm.d THEN << <<"profitability", "medium">> >>
        ELSE <<>>
ExpectedTrend(m) ==
    CASE m.trendAnalysis.recentTrend = "up" -> << <<"opportunity", "medium">> >>
      [] m.trendAnalysis.recentTrend = "down" -> << <<"warning", "high">> >>
      [] OTHER -> <<>>
ExpectedAnomaly(m) ==
    IF m.anomalyCount > 5 THEN << <<"risk", "medium">> >>
    ELSE IF m.anomalyCount = 0 THEN << <<"profitability", "low">> >>
    ELSE <<>>
ExpectedHealth(m) ==
    IF m.healthScore >= 80 THEN << <<"opportunity", "low">> >>
    ELSE IF m.healthScore < 50 THEN << <<"warning", "high">> >>
    ELSE <<>>
ExpectedInsights(m) ==
    ExpectedConcentration(m) \o ExpectedMargin(m) \o ExpectedTrend(m)
        \o ExpectedAnomaly(m) \o ExpectedHealth(m)

CategoryAndPriority(i) == <<i.category, i.priority>>

\* C4: generateFallbackInsights returns exactly the insights whose rule fires, at
\* most one per group, in the order concentration, margin, trend, anomaly,
\* health, with the thresholds 0.70, 0.15/0.30, up/down, 5/0, 80/50 of the rule
\* set; the list is the first 6 of them and never longer than 6.
C4_FallbackRules ==
    lastCall = "direct" =>
        /\ result.insights.type = "array"
        /\ Len(result.insights.items) <= 6
        /\ [k \in DOMAIN result.insights.items |->
                   CategoryAndPriority(result.insights.items[k])]
               = SubSeq(ExpectedInsights(metrics), 1,
                        IF Len(ExpectedInsights(metrics)) < 6
                        THEN Len(ExpectedInsights(metrics)) ELSE 6)

\* C4 witness: all five rule groups fire
C4_Witness ==
    /\ lastCall = "direct"
    /\ Len(result.insights.items) = 5
    /\ metrics.profitMargin = Ratio(1490)
    /\ metrics.anomalyCount = 6

StartsWith(s, prefix) ==
    Len(s) >= Len(prefix) /\ SubSeq(s, 1, Len(prefix)) = prefix
EndsWith(s, suffix) ==
    Len(s) >= Len(suffix) /\ SubSeq(s, Len(s) - Len(suffix) + 1, Len(s)) = suffix

\* The titles of the high-priority rules, lower-cased
LowerCasedTitle(t) ==
    CASE t = "High Revenue Concentration Risk" -> "high revenue concentration risk"
      [] t = "Low Profit Margin Alert" -> "low profit margin alert"
      [] t = "Declining Revenue Trend" -> "declining revenue trend"
      [] t = "Business Health Concerns" -> "business health concerns"
      [] OTHER -> "?"

RECURSIVE HighTitles(_)
HighTitles(items) ==
    IF items = <<>> THEN <<>>
    ELSE (IF Head(items).priority = "high"
          THEN <<LowerCasedTitle(Head(items).title)>> ELSE <<>>)
         \o HighTitles(Tail(items))

RECURSIVE CommaSeparated(_)
CommaSeparated(ts) ==
    IF ts = <<>> THEN ""
    ELSE IF Len(ts) = 1 THEN ts[1]
    ELSE ts[1] \o ", " \o CommaSeparated(Tail(ts))

ExpectedOpeningStart(hs) ==
    IF hs >= 70 THEN "Business is performing well with "
    ELSE IF hs >= 50 THEN "Business shows moderate health with room for improvement. "
    ELSE "Business requires urgent attention across multiple areas. "

\* C5: the executive summary of generateFallbackInsights is the opening sentence
\* of the healthScore band (>= 70, 50..69, < 50) followed by a 'Key priorities'
\* clause listing the lower-cased titles of all high-priority insights of the
\* returned list, and of no other insight, in list order; the clause is empty
\* when the list has no high-priority insight.
C5_ExecutiveSummary ==
    lastCall = "direct" =>
        LET summary == result.executiveSummary.str
            clause == "Key priorities: "
                      \o CommaSeparated(HighTitles(result.insights.items)) \o "."
        IN  /\ result.executiveSummary.type = "string"
            /\ StartsWith(summary, ExpectedOpeningStart(metrics.healthScore))
            /\ EndsWith(summary, ". " \o clause)
            /\ metrics.healthScore < 70
                   => summary = ExpectedOpeningStart(metrics.healthScore) \o clause

\* C5 witness: three high-priority insights are listed after the urgent opening
C5_Witness ==
    /\ lastCall = "direct"
    /\ metrics.healthScore < 50
    /\ Len(HighTitles(result.insights.items)) >= 3
    /\ Len(HighTitles(result.insights.items)) < Len(result.insights.items)

\* C6: fallback synthesis is deterministic: every run of generateFallbackInsights
\* on the same metrics, whatever calls were made in between, yields the same
\* insight list and the same executive summary as the first run, and a run makes
\* no external call.
C6_FallbackDeterministic ==
    /\ [](( /\ lastCall \in {"direct", "catch"}
            /\ metrics = input
            /\ firstFallback # NoResult )
          => /\ result.insights = firstFallback.insights
             /\ result.executiveSummary = firstFallback.executiveSummary)
    /\ [][lastCall' \in {"direct", "catch"} => requests' = requests]_vars

\* C6 witness: a second run on input, with another call since the first run
C6_Witness ==
    /\ lastCall \in {"direct", "catch"}
    /\ metrics = input
    /\ firstFallback # NoResult
    /\ result.generatedAt > firstFallback.generatedAt + 1
    /\ Len(result.insights.items) >= 2

----------------------------------------------------------------------------
(* Claims about the aggregator *)

\* The rollups of the transaction list have all been computed
RolledUp == stage \in {"products", "concentration"}

TxRevenue == SumSeq([k \in DOMAIN transactions |-> transactions[k].revenue])
TxCost == SumSeq([k \in DOMAIN transactions |-> transactions[k].cost])

\* Every revenue and cost of the list is a whole number of cents
WholeCents ==
    \A k \in DOMAIN transactions :
        transactions[k].revenue % 10 = 0 /\ transactions[k].cost % 10 = 0

\* The sums over the daily, monthly and per-product entries equal the sums over
\* the transactions and the totals
PartitionHolds ==
    /\ SumSeq([k \in DOMAIN dailyRevenue |-> dailyRevenue[k].revenue]) = TxRevenue
    /\ SumSeq([k \in DOMAIN dailyRevenue |-> dailyRevenue[k].cost]) = TxCost
    /\ SumSeq([k \in DOMAIN monthlyRevenue |-> monthlyRevenue[k].revenue]) = TxRevenue
    /\ SumSeq([k \in DOMAIN monthlyRevenue |-> monthlyRevenue[k].cost]) = TxCost
    /\ SumSeq([k \in DOMAIN products |-> products[k].totalRevenue]) = TxRevenue
    /\ SumSeq([k \in DOMAIN products |-> products[k].totalCost]) = TxCost
    /\ totals.totalRevenue = TxRevenue
    /\ totals.totalCost = TxCost

\* C7 (as stated): for every transaction list with non-negative revenue and cost,
\* the revenue and the cost summed over the entries of calculateDailyRevenue, of
\* calculateMonthlyRevenue and of calculateProductPerformance equal the sums over
\* the transactions, and all equal calculateTotals, the 2-decimal rounding of
\* each group included.
C7_Partition == RolledUp => PartitionHolds

\* C7 (amended): the partition identity holds for every transaction list whose
\* revenues and costs are whole numbers of cents (at most 2 decimals).
C7_PartitionOfWholeCents == (RolledUp /\ WholeCents) => PartitionHolds

\* Three whole-cent transactions, two of them on one day, over two months and
\* more than one product, rolled up
C7_Witness ==
    /\ RolledUp
    /\ WholeCents
    /\ Len(transactions) = 3
    /\ Len(dailyRevenue) = 2
    /\ Len(monthlyRevenue) = 2
    /\ Len(products) >= 2
    /\ TxRevenue > 0

\* Position of a product's first transaction in the input
FirstOccurrence(name) ==
    CHOOSE k \in DOMAIN transactions :
        /\ transactions[k].productName = name
        /\ \A j \in 1..(k - 1) : transactions[j].productName # name

\* C8: calculateProductPerformance returns exactly one entry per distinct
\* productName (compared exactly, case included), with transactionCount the
\* number of that product's transactions, in order of non-increasing
\* totalRevenue, equal totalRevenue in order of first occurrence in the input.
C8_ProductPerformance ==
    RolledUp =>
        /\ \A i, j \in DOMAIN products :
              products[i].productName = products[j].productName => i = j
        /\ {products[i].productName : i \in DOMAIN products}
              = {transactions[k].productName : k \in DOMAIN transactions}
        /\ \A i \in DOMAIN products :
              products[i].transactionCount =
                  Cardinality({k \in DOMAIN transactions :
                                  transactions[k].productName = products[i].productName})
        /\ \A i, j \in DOMAIN products :
              i < j => /\ products[i].totalRevenue >= products[j].totalRevenue
                       /\ products[i].totalRevenue = products[j].totalRevenue
                            => FirstOccurrence(products[i].productName)
                                 < FirstOccurrence(products[j].productName)

\* Two products of two transactions each with equal revenue, the one sold first
\* leading
C8_Witness ==
    /\ RolledUp
    /\ Len(products) >= 2
    /\ products[1].totalRevenue = products[2].totalRevenue
    /\ products[1].transactionCount = 2
    /\ products[2].transactionCount = 2
    /\ products[1].productName = "Latte"
    /\ products[2].productName = "Espresso"

\* The list is in order of non-increasing totalRevenue
Ranked(ps) == \A i, j \in DOMAIN ps : i < j => ps[i].totalRevenue >= ps[j].totalRevenue

\* Sum of totalRevenue over the entries at the positions I
RevenueAt(ps, I) == SumSeq([k \in DOMAIN ps |-> IF k \in I THEN ps[k].totalRevenue ELSE 0])

\* Largest revenue of n entries or fewer
LargestRevenue(ps, n) ==
    LET sums == { RevenueAt(ps, I) : I \in {J \in SUBSET DOMAIN ps : Cardinality(J) <= n} }
    IN  CHOOSE v \in sums : \A w \in sums : w <= v

\* The shares of c are those of the leading product and of the three largest
\* products of ps, as 4-decimal values, and 0 when there is no revenue
SharesOfLargest(ps, c) ==
    LET total == RevenueAt(ps, DOMAIN ps)
    IN  IF total = 0
        THEN c.topProductShare = Ratio(0) /\ c.top3ProductShare = Ratio(0)
        ELSE /\ c.topProductShare = ToFixed4(LargestRevenue(ps, 1), total)
             /\ c.top3ProductShare = ToFixed4(LargestRevenue(ps, 3), total)

\* C9 (as stated): for every product list, in whatever order, topProductShare is
\* the maximum totalRevenue over the total and top3ProductShare the sum of the
\* three largest totalRevenue values over the total; both are 0 when the total
\* is 0 or the list is empty.
C9_SharesInAnyOrder ==
    stage = "directDone" => SharesOfLargest(productsArg, concentration)

\* C9 (amended): the same for every product list in order of non-increasing
\* totalRevenue, as calculateProductPerformance returns it.
C9_SharesOfRankedList ==
    /\ (stage = "directDone" /\ Ranked(productsArg))
          => SharesOfLargest(productsArg, concentration)
    /\ stage = "concentration" => SharesOfLargest(products, concentration)

\* A ranked list of four products with revenue, the leader strictly ahead, scored
C9_Witness ==
    /\ stage = "directDone"
    /\ Len(productsArg) = 4
    /\ Ranked(productsArg)
    /\ productsArg[1].totalRevenue > productsArg[2].totalRevenue
    /\ productsArg[4].totalRevenue > 0
    /\ concentration.topProductShare.n > 0
    /\ concentration.top3ProductShare.n < 10000

\* C10 (as stated): for every transaction list with non-negative revenues the
\* returned 4-decimal values satisfy topProductShare <= top3ProductShare <= 1.0
\* and diversificationScore = 1 - top3ProductShare exactly.
C10_ExactComplement ==
    stage = "concentration" =>
        /\ concentration.topProductShare.n <= concentration.top3ProductShare.n
        /\ concentration.top3ProductShare.n <= 10000
        /\ concentration.diversificationScore.n = 10000 - concentration.top3ProductShare.n

\* C10 (amended): topProductShare <= top3ProductShare <= 1.0, and
\* diversificationScore differs from 1 - top3ProductShare by at most 0.0001.
C10_ComplementWithinOneStep ==
    stage = "concentration" =>
        /\ concentration.topProductShare.n <= concentration.top3ProductShare.n
        /\ concentration.top3ProductShare.n <= 10000
        /\ Abs(concentration.diversificationScore.n
                 - (10000 - concentration.top3ProductShare.n)) <= 1

\* Four products sharing 32.00 with 25.00 in the first three: 0.78125 and
\* 0.21875 are each rounded up
C10_Witness ==
    /\ stage = "concentration"
    /\ Len(products) = 4
    /\ concentration.top3ProductShare = Ratio(7813)
    /\ concentration.diversificationScore = Ratio(2188)

----------------------------------------------------------------------------
(* Claims about the health scorer *)

\* calculateBusinessHealth has returned, inside computeAnalytics or to a caller
Scored == stage \in {"health", "healthDone"}

\* C11: the overall score of calculateBusinessHealth (the healthScore of
\* computeAnalytics) is an integer in [0,100] for every transaction list with
\* non-negative revenue and cost and every anomalyCount >= 0.
C11_ScoreInRange == Scored => healthMetrics.score \in 0..100

\* computeAnalytics has scored a list that costs more than it earns, with 11
\* anomalies: the weighted sum is below 0 and the score is 0
C11_Witness ==
    /\ stage = "health"
    /\ Len(transactions) > 0
    /\ totals.profitMargin.n < 0
    /\ anomalyCount = 11
    /\ healthMetrics.score = 0

\* The arguments of the call: margin >= 1/3, no anomaly, a monthly series
\* without growth, a product list whose diversificationScore is 1
Saturated ==
    /\ 3 * healthArgs.totals.profitMargin.n >= 10000
    /\ anomalyCount = 0
    /\ calculateGrowthRate(healthArgs.monthlyRevenue) = Ratio(0)
    /\ calculateRevenueConcentration(healthArgs.products).diversificationScore = Ratio(10000)

\* C12 (as stated): with a profit margin >= 1/3, zero anomalies, zero growth and
\* full diversification the overall score is 100.
C12_SaturationScores100 ==
    (stage = "healthDone" /\ Saturated) => healthMetrics.score = 100

\* C12 (amended): with a profit margin >= 1/3, zero anomalies, zero growth and
\* full diversification the overall score is 88: zero growth scores 50 of the
\* 100 growth points (30 + 12.5 + 25 + 20 = 87.5).
C12_SaturationScores88 ==
    (stage = "healthDone" /\ Saturated) =>
        /\ healthMetrics.score = 88
        /\ healthMetrics.growthScore = 50

\* A margin of 0.3334 and two months of equal revenue, scored
C12_Witness ==
    /\ stage = "healthDone"
    /\ Saturated
    /\ Len(healthArgs.monthlyRevenue) = 2
    /\ healthArgs.totals.profitMargin = Ratio(3334)
    /\ healthMetrics.profitabilityScore = 100
    /\ healthMetrics.stabilityScore = 100
    /\ healthMetrics.diversificationScore = 100

\* C13: every field of the returned BusinessHealthMetrics (profitabilityScore,
\* growthScore, stabilityScore, diversificationScore and score) is an integer in
\* [0,100], also when total cost exceeds total revenue.
C13_AllFieldsInRange ==
    Scored =>
        /\ healthMetrics.score \in 0..100
        /\ healthMetrics.profitabilityScore \in 0..100
        /\ healthMetrics.growthScore \in 0..100
        /\ healthMetrics.stabilityScore \in 0..100
        /\ healthMetrics.diversificationScore \in 0..100

----------------------------------------------------------------------------
(* Claims about the anomaly detector *)

\* detectAnomalies has returned
Detected == detectStage \in {"detected", "patterns"}

\* Every day of the series has the same revenue
ConstantSeries == \A i, j \in DOMAIN series : series[i].revenue = series[j].revenue

ThresholdPositive == threshold.n > 0

\* C14 (as stated): on a constant revenue series detectAnomalies returns zero
\* anomalies, whatever threshold is passed.
C14_ConstantSeriesNeverFlagged ==
    (Detected /\ ConstantSeries) => detection.anomalies = <<>>

\* C14 (amended): on a constant revenue series detectAnomalies returns zero
\* anomalies for every threshold above 0; for a threshold of 0 or less it
\* returns every day of the series, with zScore 0, as a 'drop' of low severity.
C14_ConstantSeriesAndThreshold ==
    (Detected /\ ConstantSeries) =>
        IF ThresholdPositive
        THEN detection.anomalies = <<>>
        ELSE /\ Len(detection.anomalies) = Len(series)
             /\ \A i \in DOMAIN detection.anomalies :
                   /\ detection.anomalies[i].date = series[i].date
                   /\ detection.anomalies[i].zScore = 0
                   /\ detection.anomalies[i].type = "drop"
                   /\ detection.anomalies[i].severity = "low"

\* Ten equal days, searched with the default threshold: nothing is returned
C14_Witness ==
    /\ Detected
    /\ Len(series) = 10
    /\ ConstantSeries
    /\ threshold = [n |-> 2, d |-> 1]
    /\ detection.anomalies = <<>>

\* The revenues of the series counted in their common unit
Unit == GcdOfSeq([i \in DOMAIN series |-> series[i].revenue])
Units(revenue) == revenue \div Unit
SumOfUnits == SumSeq([i \in DOMAIN series |-> Units(series[i].revenue)])
SumOfSquares ==
    SumSeq([i \in DOMAIN series |-> Units(series[i].revenue) * Units(series[i].revenue)])

\* N * (revenue - population mean), and N * N * (population variance), in units
Deviation(revenue) == Len(series) * Units(revenue) - SumOfUnits
Variance == Len(series) * SumOfSquares - SumOfUnits * SumOfUnits

\* (revenue - mean)^2 / variance, the square of the z-score, in lowest terms
SquaredZ(revenue) ==
    LET num == Deviation(revenue) * Deviation(revenue)
        g == GCD(num, Variance)
    IN  [n |-> num \div g, d |-> Variance \div g]

\* |revenue - mean| >= c * stdDev for the number c = [n, d]
DeviatesBy(revenue, c) ==
    \/ c.n <= 0
    \/ SquaredZ(revenue).n * c.d * c.d >= c.n * c.n * SquaredZ(revenue).d

\* The days of the example [100, 100, 100, 100, 100, 100, 100, 1000], in any rotation
ExampleSeries ==
    /\ Len(series) = 8
    /\ \E i \in DOMAIN series :
          /\ series[i].revenue = 1000000
          /\ \A j \in DOMAIN series : j # i => series[j].revenue = 100000

\* C15: with stdDev > 0, detectAnomalies returns exactly the days with
\* |revenue - mean| >= threshold x stdDev (population mean and standard
\* deviation of the whole series), each once, as a 'spike' above the mean and
\* a 'drop' below; [100,100,100,100,100,100,100,1000] with threshold 2.0
\* returns the last day only, as a spike.
C15_FlaggedDays ==
    (Detected /\ ~ConstantSeries) =>
        /\ {detection.anomalies[i].date : i \in DOMAIN detection.anomalies}
              = {series[j].date : j \in {k \in DOMAIN series :
                                            DeviatesBy(series[k].revenue, threshold)}}
        /\ Len(detection.anomalies)
              = Cardinality({k \in DOMAIN series : DeviatesBy(series[k].revenue, threshold)})
        /\ \A i \in DOMAIN detection.anomalies :
              LET a == detection.anomalies[i]
              IN  /\ \E j \in DOMAIN series :
                        series[j].date = a.date /\ series[j].revenue = a.revenue
                  /\ Deviation(a.revenue) > 0 => a.type = "spike"
                  /\ Deviation(a.revenue) < 0 => a.type = "drop"
        /\ (ExampleSeries /\ threshold = [n |-> 2, d |-> 1]) =>
              /\ Len(detection.anomalies) = 1
              /\ detection.anomalies[1].revenue = 1000000
              /\ detection.anomalies[1].type = "spike"

\* The example series searched with threshold 2.0
C15_Witness ==
    /\ Detected
    /\ ExampleSeries
    /\ series[8].revenue = 1000000
    /\ threshold = [n |-> 2, d |-> 1]
    /\ Len(detection.anomalies) = 1
    /\ detection.anomalies[1].date = series[8].date

SeverityRank(a) == CASE a.severity = "high" -> 3 [] a.severity = "medium" -> 2 [] OTHER -> 1

\* C17: the returned anomalies are in order of descending severity and, within
\* one severity, of non-increasing |zScore|, whatever the order of the input.
C17_AnomalyOrder ==
    Detected =>
        \A i, j \in DOMAIN detection.anomalies :
            i < j =>
                /\ SeverityRank(detection.anomalies[i]) >= SeverityRank(detection.anomalies[j])
                /\ SeverityRank(detection.anomalies[i]) = SeverityRank(detection.anomalies[j])
                     => Abs(detection.anomalies[i].zScore) >= Abs(detection.anomalies[j].zScore)

\* Eighteen days given out of date order, all returned: the high one, the
\* medium one, then the low ones from the largest |zScore| down
C17_Witness ==
    /\ Detected
    /\ Len(series) = 18
    /\ series[1].date # Days[1]
    /\ Len(detection.anomalies) = 18
    /\ detection.anomalies[1].severity = "high"
    /\ detection.anomalies[2].severity = "medium"
    /\ detection.anomalies[3].zScore = -68
    /\ detection.anomalies[4].zScore = 61
    /\ detection.anomalies[18].zScore = -4

\* detectAnomalyPatterns has returned
PatternsFound == detectStage \in {"patterns", "patternsDone"}

\* The index and the day number of every anomaly given
TimesOf(anomalies) ==
    {<<i, DateTime(anomalies[i].date)>> : i \in DOMAIN anomalies}

\* s comes before t in date-ascending order (anomalies of one date keep the
\* order they were given in)
ComesBefore(s, t) == s[2] < t[2] \/ (s[2] = t[2] /\ s[1] < t[1])

\* <<place, index>> of every anomaly in date-ascending order
PlacesOf(times) ==
    {<<1 + Cardinality({s \in times : ComesBefore(s, t)}), t[1]>> : t \in times}

\* The anomaly at place p
AtPlace(anomalies, places, p) == anomalies[(CHOOSE o \in places : o[1] = p)[2]]

\* The places p whose anomaly is continued by the one at place p + 1: at most
\* 2 days later and of the same type
LinksOf(anomalies, places) ==
    {p \in 1..(Len(anomalies) - 1) :
        LET prev == AtPlace(anomalies, places, p)
            curr == AtPlace(anomalies, places, p + 1)
        IN  /\ DateTime(curr.date) - DateTime(prev.date) <= 2
            /\ curr.type = prev.type}

\* The maximal runs of two or more anomalies, as <<first place, last place>>
MaximalRuns(links, n) ==
    {r \in (1..n) \X (1..n) :
        /\ r[1] < r[2]
        /\ \A p \in r[1]..(r[2] - 1) : p \in links
        /\ (r[1] - 1) \notin links
        /\ r[2] \notin links}

\* C18: detectAnomalyPatterns reports exactly the maximal runs, in
\* date-ascending order, of anomalies of one type in which each anomaly is at
\* most 2 days after the previous one and which have 2 or more anomalies; each
\* run is reported once, whole, with its first and last date, its length and
\* its type.
C18_StreaksAreMaximalRuns ==
    PatternsFound =>
        LET places == PlacesOf(TimesOf(anomaliesArg))
            runs == MaximalRuns(LinksOf(anomaliesArg, places), Len(anomaliesArg))
        IN  /\ Len(patterns.consecutiveStreaks) = Cardinality(runs)
            /\ \A k \in DOMAIN patterns.consecutiveStreaks :
                  LET r == CHOOSE x \in runs :
                               Cardinality({y \in runs : y[1] < x[1]}) = k - 1
                      streak == patterns.consecutiveStreaks[k]
                  IN  /\ streak.startDate = AtPlace(anomaliesArg, places, r[1]).date
                      /\ streak.endDate = AtPlace(anomaliesArg, places, r[2]).date
                      /\ streak.length = r[2] - r[1] + 1
                      /\ streak.type = AtPlace(anomaliesArg, places, r[1]).type

\* Four anomalies given out of date order that form two runs, the second
\* ending with the last anomaly
C18_Witness ==
    /\ detectStage = "patternsDone"
    /\ Len(anomaliesArg) = 4
    /\ \E i \in 1..3 : DateTime(anomaliesArg[i].date) > DateTime(anomaliesArg[i + 1].date)
    /\ Len(patterns.consecutiveStreaks) = 2
    /\ patterns.consecutiveStreaks[1].type = "spike"
    /\ patterns.consecutiveStreaks[2].type = "drop"
    /\ patterns.consecutiveStreaks[2].startDate = "2024-02-02"
    /\ patterns.consecutiveStreaks[2].endDate = "2024-02-02"

----------------------------------------------------------------------------
(* Forecaster: dates (forecasting.ts)                                       *)
(*                                                                          *)
(* A Date is its time value in whole hours since 1970-01-01T00:00Z.         *)
(* new Date('YYYY-MM-DD') is UTC midnight and toISOString() prints UTC,     *)
(* while getDate() and setDate() work on local time: the time zone of the   *)
(* process decides what they do.  Two zones are modelled: UTC, and          *)
(* America/New_York with its 2024 daylight saving time (UTC-5, and UTC-4    *)
(* from 2024-03-10 02:00 to 2024-11-03 02:00 local time).                   *)

TimeZones == {"UTC", "America/New_York"}

\* new Date(date) for a date-only string
NewDate(date) == 24 * DateTime(date)

DstStartUtc == NewDate("2024-03-10") + 7
DstEndUtc == NewDate("2024-11-03") + 6
DstStartLocal == NewDate("2024-03-10") + 3
DstEndLocal == NewDate("2024-11-03") + 1

\* LocalTime(t): the wall-clock time of the time value t
LocalTime(tz, t) ==
    IF tz = "UTC" THEN t
    ELSE IF t >= DstStartUtc /\ t < DstEndUtc THEN t - 4 ELSE t - 5

\* UTC(local): the time value of a wall-clock time
UTC(tz, local) ==
    IF tz = "UTC" THEN local
    ELSE IF local >= DstStartLocal /\ local < DstEndLocal THEN local + 4 ELSE local + 5

\* Days since 1970-01-01 of 1 January of year y
DayOfYearStart(y) == 365 * (y - 1970) + (LeapDaysBefore(y) - LeapDaysBefore(1970))

\* Days before the first of month m in year y
DayOfMonthStart(y, m) ==
    IF m = 13 THEN (IF IsLeapYear(y) THEN 366 ELSE 365)
    ELSE DaysBeforeMonth[m] + (IF m > 2 /\ IsLeapYear(y) THEN 1 ELSE 0)

\* The calendar date [year, month, day] of a day counted from 1970-01-01
DateOfDay(n) ==
    LET y == CHOOSE yy \in 1970..2100 : DayOfYearStart(yy) <= n /\ n < DayOfYearStart(yy + 1)
        doy == n - DayOfYearStart(y)
        m == CHOOSE mm \in 1..12 : DayOfMonthStart(y, mm) <= doy /\ doy < DayOfMonthStart(y, mm + 1)
    IN  [year |-> y, month |-> m, day |-> doy - DayOfMonthStart(y, m) + 1]

\* date.getDate(): the day of the month in local time
getDate(tz, t) == DateOfDay(LocalTime(tz, t) \div 24).day

\* date.setDate(dt): the local day of the month becomes dt (days past the end
\* of the month run into the next), the local time of day stays
setDate(tz, t, dt) ==
    LET local == LocalTime(tz, t)
        day == local \div 24
        first == day - (DateOfDay(day).day - 1)
    IN  UTC(tz, 24 * (first + dt - 1) + (local % 24))

\* date.toISOString().split('T')[0]
toISODate(t) == IsoDate(DateOfDay(t \div 24))

----------------------------------------------------------------------------
(* Forecaster: regression                                                   *)
(*                                                                          *)
(* Revenue is in mills, as everywhere; slope and intercept are returned     *)
(* with 4 decimals, as ratios over 10000 (dollars per day, dollars), and r2 *)
(* as a ratio over 10000.  The sums of the regression are exact fractions:  *)
(* differences from the means are kept multiplied by n, and a common factor *)
(* is taken out of the terms of a sum of squares before squaring.           *)

\* Mutant: the day index starts at 1
RegressionData_OneBased(sortedData) ==
    [i \in DOMAIN sortedData |-> [x |-> i, y |-> sortedData[i].revenue]]

\* sortedData.map((day, index) => ({ x: index, y: day.revenue })) (lines 121-124)
RegressionData(sortedData) ==
    [i \in DOMAIN sortedData |-> [x |-> i - 1, y |-> sortedData[i].revenue]]

\* g and q with sum of squares of s = g * g * q
SumOfSquaresOf(s) ==
    LET g == GcdOfSeq(s)
    IN  IF g = 0 THEN [g |-> 0, q |-> 0]
        ELSE [g |-> g, q |-> SumSeq([i \in DOMAIN s |-> (s[i] \div g) * (s[i] \div g)])]

\* parseFloat((p/q).toFixed(4)) of p/q mills (q > 0), as a ratio over 10000 in dollars
MillsToFixed4(p, q) == ToFixed4(p, 1000 * q)

\* calculateLinearRegression(data) (lines 9-55)
calculateLinearRegression(data) ==
    LET n == Len(data)
        sumX == SumSeq([i \in DOMAIN data |-> data[i].x])
        sumY == SumSeq([i \in DOMAIN data |-> data[i].y])
        \* n * xDiff and n * yDiff of every point (lines 29-30)
        xDiff == [i \in DOMAIN data |-> n * data[i].x - sumX]
        yDiff == [i \in DOMAIN data |-> n * data[i].y - sumY]
        \* n * n * numerator and n * n * denominator (lines 31-32)
        numerator == SumSeq([i \in DOMAIN data |-> xDiff[i] * yDiff[i]])
        denominator == SumSeq([i \in DOMAIN data |-> xDiff[i] * xDiff[i]])
        \* slope = numerator / denominator, or 0 (line 35)
        slopeN == IF denominator # 0 THEN numerator ELSE 0
        slopeD == IF denominator # 0 THEN denominator ELSE 1
        \* intercept = meanY - slope * meanX (line 36), over n * slopeD
        interceptN == sumY * slopeD - slopeN * sumX
        \* (n * slopeD) * (point.y - predicted) of every point (lines 43-44)
        residual == [i \in DOMAIN data |-> slopeD * yDiff[i] - slopeN * xDiff[i]]
        ssRes == SumOfSquaresOf(residual)
        ssTot == SumOfSquaresOf(yDiff)
        \* ssRes / ssTot = (a / b)^2 * (ssRes.q / ssTot.q)
        c == GCD(ssRes.g, slopeD * ssTot.g)
        a == ssRes.g \div c
        b == (slopeD * ssTot.g) \div c
        r2N == b * b * ssTot.q - a * a * ssRes.q
        r2D == b * b * ssTot.q
    IN  IF n = 0 THEN [slope |-> Ratio(0), intercept |-> Ratio(0), r2 |-> Ratio(0)]
        ELSE [slope |-> MillsToFixed4(slopeN, slopeD),
              intercept |-> MillsToFixed4(interceptN, n * slopeD),
              r2 |-> IF ssTot.g # 0 THEN ToFixed4(Max(0, r2N), r2D) ELSE Ratio(0)]

\* calculateStandardError(data, slope, intercept) (lines 60-77), in
\* ten-thousandths of a dollar; Math.sqrt is carried to that digit
calculateStandardError(data, slope, intercept) ==
    LET n == Len(data)
        error == [i \in DOMAIN data |-> 10 * data[i].y - (slope.n * data[i].x + intercept.n)]
        sumSquaredErrors == SumSeq([i \in DOMAIN data |-> error[i] * error[i]])
    IN  IF n <= 2 THEN 0
        ELSE Isqrt(sumSquaredErrors \div (n - 2))

\* Mutant: the slope alone decides the trend
determineTrend_SlopeOnly(slope, r2) ==
    IF NumGT(slope, 1, 2) THEN "increasing"
    ELSE IF NumLT(slope, -1, 2) THEN "decreasing"
    ELSE "stable"

\* determineTrend(slope, r2) (lines 82-97)
determineTrend(slope, r2) ==
    IF NumLT(r2, 3, 10) THEN "stable"
    ELSE IF NumGT(slope, 1, 2) THEN "increasing"
    ELSE IF NumLT(slope, -1, 2) THEN "decreasing"
    ELSE "stable"

\* parseFloat(v.toFixed(2)) of v millionths of a dollar, in mills
MicrosToFixed2(v) == 10 * RoundDiv(v, 10000)

\* The ForecastPoint pushed in round i of the loop (lines 135-151);
\* predicted is in ten-thousandths, marginOfError in millionths of a dollar
ForecastPointAt(tz, lastDate, len, slope, intercept, standardError, i) ==
    LET x == len + i - 1
        predicted == slope.n * x + intercept.n
        marginOfError == 196 * standardError
    IN  [date |-> toISODate(setDate(tz, lastDate, getDate(tz, lastDate) + i)),
         predicted |-> Max(0, MicrosToFixed2(100 * predicted)),
         confidence |->
             [lower |-> Max(0, MicrosToFixed2(100 * predicted - marginOfError)),
              upper |-> MicrosToFixed2(100 * predicted + marginOfError)]]

\* forecastRevenue(dailyRevenue, daysToForecast) (lines 102-163) in time zone tz
forecastRevenue(daily, days, tz) ==
    IF Len(daily) = 0
    THEN [forecast |-> <<>>, slope |-> Ratio(0), intercept |-> Ratio(0), r2 |-> Ratio(0),
          trend |-> "stable"]
    ELSE LET sortedData == SortByTime(daily)
             regressionData == RegressionData(sortedData)
             regression == calculateLinearRegression(regressionData)
             standardError ==
                 calculateStandardError(regressionData, regression.slope, regression.intercept)
             lastDate == NewDate(sortedData[Len(sortedData)].date)
         IN  [forecast |->
                  [i \in 1..days |->
                      ForecastPointAt(tz, lastDate, Len(sortedData), regression.slope,
                                      regression.intercept, standardError, i)],
              slope |-> regression.slope,
              intercept |-> regression.intercept,
              r2 |-> regression.r2,
              trend |-> determineTrend(regression.slope, regression.r2)]

----------------------------------------------------------------------------
(* Forecaster: inputs and process *)

\* `daysToForecast: number = 30`, the value every route passes
DefaultDaysToForecast == 30

\* Revenues in date order: lines falling to zero and below, with and without
\* noise; a zigzag with a steep slope and little fit; rising lines; slopes of
\* exactly 0.5 and -0.5; constant, one-day, two-day and three-day series; six
\* days with a slope and an intercept that do not end after 4 decimals; the line
\* y = 5x + 100, a line rising by a tenth of a cent a day and one falling by 2.50
ForecastRevenues ==
    { <<3000, 2000, 1000, 0>>, <<3000, 1000, 2000, 0>>, <<0, 3000, 0, 3000>>,
      <<0, 1000, 2000, 3000>>, <<0, 500, 1000, 1500>>, <<1500, 1000, 500, 0>>,
      <<1000, 1000, 1000, 1000>>, <<2000>>, <<0, 1000>>, <<0, 1000, 0>>,
      <<0, 0, 2000>>, <<0, 1000, 0, 2000, 1000, 3000>>, <<3000, 0, 2000, 0, 1000>>,
      <<100000, 105000, 110000, 115000>>, <<1000, 1001, 1002>>,
      <<12500, 10000, 7500, 5000, 2500, 0>> }

\* The last day of a history: before a leap day and the end of a month, and
\* before the start of daylight saving time in New York
LastDays == {"2024-02-27", "2024-03-08"}

\* The history of consecutive days with the given revenues that ends on `last`
HistoryOf(revenues, last) ==
    [i \in DOMAIN revenues |->
        DayOf(IsoDate(DateOfDay(DateTime(last) - (Len(revenues) - i))), revenues[i])]

\* Histories in date order and with the first day moved to the end
Histories ==
    {<<>>} \cup { Rotate(HistoryOf(rs, last), r) :
                    rs \in ForecastRevenues, last \in LastDays, r \in 0..1 }

ForecastInit ==
    /\ input = OtherMetrics
    /\ InsightAtRest
    /\ AggIdle
    /\ DetectIdle
    /\ RouteIdle
    /\ FrameIdle
    /\ history \in Histories
    /\ timeZone \in TimeZones
    /\ daysToForecast = 0
    /\ forecast = <<>>
    /\ forecastStage = "start"

\* forecastRevenue(history, days) runs and returns
CallForecastRevenue(days) ==
    /\ forecastStage = "start"
    /\ daysToForecast' = days
    /\ forecast' = forecastRevenue(history, days, timeZone)
    /\ forecastStage' = "done"
    /\ UNCHANGED <<history, timeZone, insightVars, aggVars, healthVars, detectVars,
                   routeVars, frameVars>>

ForecastDays == \E days \in 0..MaxForecast : CallForecastRevenue(days)

ForecastDefaultDays == CallForecastRevenue(DefaultDaysToForecast)

ForecastNext ==
    \/ ForecastDays
    \/ ForecastDefaultDays

SpecForecast == ForecastInit /\ [][ForecastNext]_vars

----------------------------------------------------------------------------
(* Claims about the forecaster *)

\* forecastRevenue has returned
Forecasted == forecastStage = "done"

\* The latest date of the history, in days since 1970-01-01
LatestDay ==
    CHOOSE d \in {DateTime(history[j].date) : j \in DOMAIN history} :
        \A j \in DOMAIN history : DateTime(history[j].date) <= d

\* slope * x + intercept at x = N + i - 1, rounded to 2 decimals, in mills
LineAt(i) ==
    10 * RoundDiv(forecast.slope.n * (Len(history) + i - 1) + forecast.intercept.n, 100)

\* The i-th point is dated i days after the latest date of the history
DatedAhead(i) == DateTime(forecast.forecast[i].date) = LatestDay + i

\* The i-th point is the line at x = N + i - 1, not below 0, and so is its lower bound
FlooredAtZero(i) ==
    /\ forecast.forecast[i].predicted = (IF LineAt(i) > 0 THEN LineAt(i) ELSE 0)
    /\ forecast.forecast[i].predicted >= 0
    /\ forecast.forecast[i].confidence.lower >= 0

\* C19: for every non-empty series and every daysToForecast >= 0,
\* forecastRevenue returns exactly daysToForecast points, the i-th dated the
\* latest input date plus i days and computed at x = N + i - 1, every point
\* with predicted >= 0 and confidence.lower >= 0.
C19_ForecastPoints ==
    (Forecasted /\ history # <<>>) =>
        /\ Len(forecast.forecast) = daysToForecast
        /\ \A i \in DOMAIN forecast.forecast : DatedAhead(i) /\ FlooredAtZero(i)

\* C19, what the code keeps: in every time zone the number of points, the x
\* of each and the floors at 0 are as stated, and with the process in UTC the
\* dates are as well.
C19_ForecastPointsInUtc ==
    (Forecasted /\ history # <<>>) =>
        /\ Len(forecast.forecast) = daysToForecast
        /\ \A i \in DOMAIN forecast.forecast :
              /\ FlooredAtZero(i)
              /\ timeZone = "UTC" => DatedAhead(i)

\* A falling line forecast below zero, with the process in UTC
C19_Witness ==
    /\ Forecasted
    /\ timeZone = "UTC"
    /\ daysToForecast = 3
    /\ Len(history) = 4
    /\ forecast.slope.n < 0
    /\ forecast.slope.n * 6 + forecast.intercept.n < 0
    /\ forecast.forecast[3].predicted = 0
    /\ forecast.forecast[3].confidence.lower = 0
    /\ forecast.forecast[3].date = "2024-03-01"

RevenueOfDay(k) ==
    history[CHOOSE j \in DOMAIN history :
                Cardinality({m \in DOMAIN history :
                    DateTime(history[m].date) < DateTime(history[j].date)}) = k].revenue

\* The history is the line a * k + b in date order, with a # 0
LinearHistory(a, b) ==
    /\ Len(history) >= 2
    /\ a # 0
    /\ \A k \in 0..(Len(history) - 1) : RevenueOfDay(k) = a * k + b

\* C21: for a perfectly linear series, the k-th day in date order having
\* revenue a*k + b with a # 0 and N >= 2, given in any order, forecastRevenue
\* returns slope = a, intercept = b and r2 = 1; y = 5x + 100 gives slope 5,
\* intercept 100, r2 1 and trend 'increasing'.
C21_LineRecovered ==
    (Forecasted /\ Len(history) >= 2) =>
        LET b == RevenueOfDay(0)
            a == RevenueOfDay(1) - b
        IN  /\ LinearHistory(a, b) =>
                  /\ forecast.slope = Ratio(10 * a)
                  /\ forecast.intercept = Ratio(10 * b)
                  /\ forecast.r2 = Ratio(10000)
            /\ LinearHistory(5000, 100000) =>
                  /\ forecast.slope = Ratio(50000)
                  /\ forecast.intercept = Ratio(1000000)
                  /\ forecast.trend = "increasing"

\* y = 5x + 100 over four days, given with the first day last
C21_Witness ==
    /\ Forecasted
    /\ Len(history) = 4
    /\ history[4].revenue = 100000
    /\ LinearHistory(5000, 100000)
    /\ forecast.slope = Ratio(50000)
    /\ forecast.r2 = Ratio(10000)
    /\ forecast.trend = "increasing"

\* The band of every point has no width: the standard error used is 0
NoBand ==
    \A i \in DOMAIN forecast.forecast :
        forecast.forecast[i].confidence.upper
            = 10 * RoundDiv(forecast.slope.n * (Len(history) + i - 1) + forecast.intercept.n, 100)

\* C22: for a series with fewer than 2 points (empty or a single day)
\* forecastRevenue returns slope = 0, intercept = 0 and r2 = 0; for a series
\* with fewer than 3 points the standard error of the confidence band is 0.
C22_ShortSeriesRegression ==
    Forecasted =>
        /\ Len(history) < 2 =>
              /\ forecast.slope = Ratio(0)
              /\ forecast.intercept = Ratio(0)
              /\ forecast.r2 = Ratio(0)
        /\ Len(history) < 3 => NoBand

\* C22, what the code keeps: the empty series returns slope, intercept and r2
\* of 0; a single day returns slope 0, r2 0 and its revenue as the intercept;
\* with fewer than 3 points the band has no width.
C22_SingleDayIntercept ==
    Forecasted =>
        /\ Len(history) = 0 =>
              /\ forecast.slope = Ratio(0)
              /\ forecast.intercept = Ratio(0)
              /\ forecast.r2 = Ratio(0)
        /\ Len(history) = 1 =>
              /\ forecast.slope = Ratio(0)
              /\ forecast.intercept = Ratio(10 * history[1].revenue)
              /\ forecast.r2 = Ratio(0)
        /\ Len(history) < 3 => NoBand

\* C26: every forecast point has confidence.lower <= predicted <=
\* confidence.upper, also where the line is below zero and predicted and
\* lower are floored at 0.
C26_PredictionInsideBand ==
    Forecasted =>
        \A i \in DOMAIN forecast.forecast :
            /\ forecast.forecast[i].confidence.lower <= forecast.forecast[i].predicted
            /\ forecast.forecast[i].predicted <= forecast.forecast[i].confidence.upper

\* C26, what the code keeps: lower <= predicted always, and predicted <= upper
\* wherever the upper bound of the line's band is not negative.
C26_BandAboveZero ==
    Forecasted =>
        \A i \in DOMAIN forecast.forecast :
            /\ forecast.forecast[i].confidence.lower <= forecast.forecast[i].predicted
            /\ forecast.forecast[i].confidence.upper >= 0
                  => forecast.forecast[i].predicted <= forecast.forecast[i].confidence.upper

----------------------------------------------------------------------------
(* Claims about the urgent opening of the executive summary *)

UrgentOpening == "Business requires urgent attention across multiple areas. "
EmptyPriorities == "Key priorities: ."

\* C29: whenever generateFallbackInsights opens the executive summary with the
\* 'urgent attention' sentence (healthScore < 50), the returned list holds at
\* least one high-priority insight and the 'Key priorities' clause is not
\* empty; an empty clause occurs only with healthScore >= 50.
C29_UrgentOpeningHasPriorities ==
    lastCall = "direct" =>
        LET summary == result.executiveSummary.str
            items == result.insights.items
        IN  /\ StartsWith(summary, UrgentOpening) <=> metrics.healthScore < 50
            /\ StartsWith(summary, UrgentOpening) =>
                  /\ \E k \in DOMAIN items : items[k].priority = "high"
                  /\ ~EndsWith(summary, EmptyPriorities)
            /\ EndsWith(summary, EmptyPriorities) => metrics.healthScore >= 50

\* A health score of 49 with no other rule of high priority firing: the health
\* warning is the one priority listed
C29_Witness ==
    /\ lastCall = "direct"
    /\ metrics.healthScore = 49
    /\ Cardinality({k \in DOMAIN result.insights.items :
                       result.insights.items[k].priority = "high"}) = 1
    /\ result.executiveSummary.str
          = UrgentOpening \o "Key priorities: business health concerns."

----------------------------------------------------------------------------
(* Claims about short series in the anomaly detector *)

DefaultThreshold == [n |-> 2, d |-> 1]

\* C30: with the default threshold 2.0, detectAnomalies returns no anomaly for
\* any daily series of fewer than 5 entries, and no anomaly of severity 'high'
\* for a series of fewer than 10 entries.
C30_ShortSeriesBounds ==
    (Detected /\ threshold = DefaultThreshold) =>
        /\ Len(series) < 5 => detection.anomalies = <<>>
        /\ Len(series) < 10 =>
              \A k \in DOMAIN detection.anomalies :
                  detection.anomalies[k].severity # "high"

\* Nine days, one of them sqrt(8) = 2.83 deviations above the mean: flagged, and
\* of severity 'medium'
C30_Witness ==
    /\ Detected
    /\ threshold = DefaultThreshold
    /\ Len(series) = 9
    /\ Len(detection.anomalies) = 1
    /\ detection.anomalies[1].zScore = 283
    /\ detection.anomalies[1].severity = "medium"

\* The bounds are reached: five days flag the day at exactly 2 deviations, ten
\* days give a 'high' anomaly at exactly 3
C30_BoundsAreTight ==
    /\ Detected
    /\ threshold = DefaultThreshold
    /\ \/ Len(series) = 5 /\ Len(detection.anomalies) = 1
       \/ /\ Len(series) = 10
          /\ \E k \in DOMAIN detection.anomalies : detection.anomalies[k].severity = "high"

----------------------------------------------------------------------------
(* The endpoints: GET of api/analytics, api/insights and api/report.  Each    *)
(* reads the transactions of a business ordered by date, answers 404 when     *)
(* there are none, and otherwise runs the detector, computeAnalytics and the  *)
(* forecaster in this order.                                                  *)

\* .sort((a, b) => a.totalProfit - b.totalProfit) on a copy
InsertByProfit(sorted, x) ==
    LET k == Cardinality({j \in DOMAIN sorted : sorted[j].totalProfit <= x.totalProfit})
    IN  SubSeq(sorted, 1, k) \o <<x>> \o SubSeq(sorted, k + 1, Len(sorted))

RECURSIVE SortByProfit(_)
SortByProfit(s) ==
    IF s = <<>> THEN <<>>
    ELSE InsertByProfit(SortByProfit(SubSeq(s, 1, Len(s) - 1)), s[Len(s)])

\* getTopProducts(products, count) (analytics.ts, lines 119-124)
getTopProducts(ps, count) == slice(ps, 0, count)

\* getBottomProducts(products, count) (lines 129-136)
getBottomProducts(ps, count) == slice(SortByProfit(ps), 0, count)

\* computeAnalytics(transactions, anomalyCount) (lines 251-274)
computeAnalytics(txs, count) ==
    LET sums == calculateTotals(txs)
        monthly == calculateMonthlyRevenue(txs)
        ps == calculateProductPerformance(txs)
    IN  [totalRevenue |-> sums.totalRevenue,
         totalCost |-> sums.totalCost,
         totalProfit |-> sums.totalProfit,
         profitMargin |-> sums.profitMargin,
         healthScore |-> calculateBusinessHealth(sums, ps, monthly, count).score,
         dailyRevenue |-> calculateDailyRevenue(txs),
         monthlyRevenue |-> monthly,
         topProducts |-> getTopProducts(ps, 5),
         bottomProducts |-> getBottomProducts(ps, 5)]

\* The JavaScript quotient n / d of two amounts: NaN for 0 / 0, an infinity for
\* n / 0, and never rounded
Quotient(n, d) == [n |-> n, d |-> d]

\* x || 0 for a JavaScript number x: 0 and NaN give 0
OrZero(x) == IF IsNaN(x) \/ (x.d # 0 /\ x.n = 0) THEN Ratio(0) ELSE x

\* Array.prototype.slice(-n)
sliceLast(s, n) == SubSeq(s, Max(1, Len(s) - n + 1), Len(s))

\* prepareMetricsForInsight(analytics, forecast, anomalies) (insight-engine.ts,
\* lines 283-317)
prepareMetricsForInsight(summary, fc, anomalies) ==
    LET recentMonths == sliceLast(summary.monthlyRevenue, 3)
        growthRate ==
            IF Len(recentMonths) >= 2
            THEN Quotient(recentMonths[Len(recentMonths)].revenue - recentMonths[1].revenue,
                          recentMonths[1].revenue)
            ELSE Ratio(0)
        top3 == slice(summary.topProducts, 0, 3)
    IN  [totalRevenue |-> summary.totalRevenue,
         totalProfit |-> summary.totalProfit,
         profitMargin |-> summary.profitMargin,
         healthScore |-> summary.healthScore,
         revenueConcentration |->
             [\* analytics.topProducts[0]?.totalRevenue / analytics.totalRevenue || 0
              topProductShare |->
                  OrZero(IF Len(summary.topProducts) = 0 THEN NaN
                         ELSE Quotient(summary.topProducts[1].totalRevenue,
                                       summary.totalRevenue)),
              \* the sum of the first three, divided by analytics.totalRevenue
              top3ProductShare |->
                  Quotient(SumSeq([k \in DOMAIN top3 |-> top3[k].totalRevenue]),
                           summary.totalRevenue)],
         trendAnalysis |-> [recentTrend |-> fc.trend, growthRate |-> growthRate],
         anomalyCount |-> Len(anomalies.anomalies),
         forecastTrend |-> fc.trend]

\* transactions.map(t => ({ date: t.date.toISOString().split('T')[0],
\* revenue: t.revenue, cost: t.cost, profit: t.revenue - t.cost })): one entry
\* for every transaction (report/route.ts, lines 55-60)
RouteDailyRevenue(txs) ==
    [k \in DOMAIN txs |->
        [date |-> IsoDate(txs[k].date), revenue |-> txs[k].revenue, cost |-> txs[k].cost,
         profit |-> txs[k].revenue - txs[k].cost]]

\* detectAnomalies is called without a threshold: `threshold: number = 2.0`
RouteThreshold == [n |-> 2, d |-> 1]

\* The totals the report endpoint hands to calculateBusinessHealth (lines 72-77)
TotalsOfSummary(summary) ==
    [totalRevenue |-> summary.totalRevenue, totalCost |-> summary.totalCost,
     totalProfit |-> summary.totalProfit, profitMargin |-> summary.profitMargin]

----------------------------------------------------------------------------
(* The endpoints: inputs and requests *)

MaxRouteTx == 3

\* Six consecutive days across the end of a month
RouteDates ==
    <<Date(2024, 1, 30), Date(2024, 1, 31), Date(2024, 2, 1), Date(2024, 2, 2),
      Date(2024, 2, 3), Date(2024, 2, 4)>>

\* Up to MaxRouteTx sales of nothing or 1.00 at a cost of 0.50, on consecutive
\* days or all on one, of one product or of two in turn
ShortLedgers ==
    { [k \in DOMAIN rs |->
          Transaction(RouteDates[IF sameDay THEN 1 ELSE k],
                      IF oneProduct THEN "Espresso" ELSE ProductNames[1 + (k % 2)],
                      1000, rs[k], 500)] :
        rs \in SeqsUpTo({0, 1000}, MaxRouteTx), sameDay \in BOOLEAN, oneProduct \in BOOLEAN }

\* Six products sold once each for 1.00, on six days
SixProductLedger ==
    [k \in 1..6 |-> Transaction(RouteDates[k], ProductNames[k], 1000, 1000, 500)]

\* A sale of 1.00 on each of six days, and a second one on the last day
DoubledDayLedger ==
    [k \in 1..7 |-> Transaction(RouteDates[Min(k, 6)], "Espresso", 1000, 1000, 500)]

\* What findMany returns, ordered by date
Ledgers == ShortLedgers \cup {SixProductLedger, DoubledDayLedger}

RouteInit ==
    /\ input = OtherMetrics
    /\ InsightAtRest
    /\ DetectIdle
    /\ FrameIdle
    /\ RouteIdle
    /\ transactions \in Ledgers
    /\ productsArg = <<>>
    /\ stage = "idle"
    /\ totals = <<>>
    /\ dailyRevenue = <<>>
    /\ monthlyRevenue = <<>>
    /\ products = <<>>
    /\ concentration = <<>>
    /\ healthArgs = <<>>
    /\ anomalyCount = 0
    /\ healthMetrics = <<>>
    /\ history = <<>>
    /\ daysToForecast = 0
    /\ forecast = <<>>
    /\ forecastStage = "idle"
    /\ timeZone \in TimeZones

\* GET of an endpoint, from the query of the transactions to the response.  The
\* analytics endpoint builds the metrics inline with the expressions of
\* prepareMetricsForInsight (part_005, lines 98-135) and generates no insights;
\* generateInsights gets no answer from the text service and returns the
\* rule-based report; the report endpoint scores the health once more.
Serve(e) ==
    /\ status = 0
    /\ endpoint' = e
    /\ IF transactions = <<>>
       THEN /\ status' = 404
            /\ UNCHANGED <<series, threshold, detection, anomalyCount, analytics, history,
                           daysToForecast, forecast, metrics, clock, result, healthArgs,
                           healthMetrics>>
       ELSE LET daily == RouteDailyRevenue(transactions)
                anomalyResult == detectAnomalies(daily, RouteThreshold)
                count == Len(anomalyResult.anomalies)
                summary == computeAnalytics(transactions, count)
                fc == forecastRevenue(summary.dailyRevenue, DefaultDaysToForecast, timeZone)
                m == prepareMetricsForInsight(summary, fc, anomalyResult)
            IN  /\ series' = daily
                /\ threshold' = RouteThreshold
                /\ detection' = anomalyResult
                /\ anomalyCount' = count
                /\ analytics' = summary
                /\ history' = summary.dailyRevenue
                /\ daysToForecast' = DefaultDaysToForecast
                /\ forecast' = fc
                /\ metrics' = m
                /\ IF e \in {"insights", "report"}
                   THEN /\ clock' = clock + 1
                        /\ result' = generateFallbackInsights(m, clock')
                   ELSE UNCHANGED <<clock, result>>
                /\ IF e = "report"
                   THEN /\ healthArgs' = [totals |-> TotalsOfSummary(summary),
                                          products |-> summary.topProducts,
                                          monthlyRevenue |-> summary.monthlyRevenue]
                        /\ healthMetrics' =
                               calculateBusinessHealth(TotalsOfSummary(summary),
                                                       summary.topProducts,
                                                       summary.monthlyRevenue, count)
                   ELSE UNCHANGED <<healthArgs, healthMetrics>>
                /\ status' = 200
    /\ UNCHANGED <<input, pc, response, content, requests, fallbackRuns, lastCall,
                   firstFallback, aggVars, anomaliesArg, patterns, detectStage,
                   forecastStage, timeZone, frameVars>>

GetAnalytics == Serve("analytics")
GetInsights == Serve("insights")
GetReport == Serve("report")

RouteNext ==
    \/ GetAnalytics
    \/ GetInsights
    \/ GetReport

SpecRoutes == RouteInit /\ [][RouteNext]_vars

----------------------------------------------------------------------------
(* Claims about the endpoints *)

\* A request was answered with the computed figures
Served == status = 200

\* The JavaScript number is 0: not NaN, not an infinity, not undefined
IsZero(x) == x.d # 0 /\ x.n = 0

\* Every margin of the summary and both shares of calculateRevenueConcentration
\* are 0
CoreRatiosZero ==
    LET c == calculateRevenueConcentration(analytics.topProducts)
    IN  /\ IsZero(analytics.profitMargin)
        /\ \A k \in DOMAIN analytics.monthlyRevenue :
               IsZero(analytics.monthlyRevenue[k].profitMargin)
        /\ \A k \in DOMAIN analytics.topProducts :
               IsZero(analytics.topProducts[k].profitMargin)
        /\ IsZero(c.topProductShare)
        /\ IsZero(c.top3ProductShare)

\* C23 (as stated): when total revenue is 0, every share and margin ratio the
\* core produces is 0, never undefined, infinite or not-a-number: profitMargin
\* of calculateTotals and of each monthly and product entry, both shares of
\* calculateRevenueConcentration, and both shares of prepareMetricsForInsight.
C23_ZeroRevenueRatios ==
    (Served /\ analytics.totalRevenue = 0) =>
        /\ CoreRatiosZero
        /\ IsZero(metrics.revenueConcentration.topProductShare)
        /\ IsZero(metrics.revenueConcentration.top3ProductShare)

\* What the code keeps: the margins, the shares of calculateRevenueConcentration
\* and topProductShare of prepareMetricsForInsight are 0; its top3ProductShare
\* is 0 / 0
C23_ZeroRevenueTop3IsNaN ==
    (Served /\ analytics.totalRevenue = 0) =>
        /\ CoreRatiosZero
        /\ IsZero(metrics.revenueConcentration.topProductShare)
        /\ IsNaN(metrics.revenueConcentration.top3ProductShare)

\* An insight of the returned list with this category, priority and title
HasInsight(category, priority, title) ==
    \E k \in DOMAIN result.insights.items :
        /\ result.insights.items[k].category = category
        /\ result.insights.items[k].priority = priority
        /\ result.insights.items[k].title = title

InsightsServed == Served /\ endpoint \in {"insights", "report"}

\* C25 (as stated): in the pipeline of the insights and report endpoints the
\* value put in trendAnalysis.recentTrend is always one of 'up', 'down',
\* 'stable'; a forecast whose trend is 'increasing' yields the medium-priority
\* 'opportunity' growth insight and one whose trend is 'decreasing' the
\* high-priority 'warning' decline insight.
C25_TrendWords ==
    InsightsServed =>
        /\ metrics.trendAnalysis.recentTrend \in {"up", "down", "stable"}
        /\ forecast.trend = "increasing" =>
               HasInsight("opportunity", "medium", "Positive Growth Trajectory")
        /\ forecast.trend = "decreasing" =>
               HasInsight("warning", "high", "Declining Revenue Trend")

\* What the code keeps: recentTrend is the forecast's trend, word for word, and
\* neither trend insight is ever in the list
C25_TrendPassedThrough ==
    InsightsServed =>
        /\ metrics.trendAnalysis.recentTrend = forecast.trend
        /\ forecast.trend \in {"increasing", "decreasing", "stable"}
        /\ ~HasInsight("opportunity", "medium", "Positive Growth Trajectory")
        /\ ~HasInsight("warning", "high", "Declining Revenue Trend")

ReportServed == Served /\ endpoint = "report"

\* The distinct product names of the transactions
ProductsSold == { transactions[k].productName : k \in DOMAIN transactions }

\* C27 (as stated): for every transaction list, with any number of distinct
\* products, the overall score in healthMetrics that the report endpoint
\* computes equals the healthScore that computeAnalytics returned for the same
\* transactions and the same anomaly count.
C27_ReportScoreIsHealthScore ==
    ReportServed => healthMetrics.score = analytics.healthScore

\* What the code keeps: the two scores agree for up to five distinct products
C27_ScoresAgreeUpToFiveProducts ==
    (ReportServed /\ Cardinality(ProductsSold) <= 5) =>
        healthMetrics.score = analytics.healthScore

\* C28 (as stated): the anomalies the endpoints report, and the anomaly count
\* they pass to computeAnalytics, are those of the daily revenue series with one
\* value per distinct date: they equal detectAnomalies(calculateDailyRevenue(T)),
\* also when a date has several transactions.
C28_AnomaliesOfDailySeries ==
    Served =>
        LET daily == detectAnomalies(calculateDailyRevenue(transactions), RouteThreshold)
        IN  /\ detection.anomalies = daily.anomalies
            /\ anomalyCount = Len(daily.anomalies)

\* What the code keeps: the series has one entry for every transaction, and
\* gives the anomalies of the daily series when no date has two transactions
C28_AnomaliesOfTransactions ==
    Served =>
        /\ Len(series) = Len(transactions)
        /\ anomalyCount = Len(detection.anomalies)
        /\ Len(calculateDailyRevenue(transactions)) = Len(transactions) =>
               detection.anomalies
                   = detectAnomalies(calculateDailyRevenue(transactions),
                                     RouteThreshold).anomalies

----------------------------------------------------------------------------
(* A caller's array handed to core functions.  Arrays are held by reference:   *)
(* `heap` is the sequence of the arrays that exist, a reference is a place in  *)
(* it, and the caller's array is at place 1.  Every function below is given    *)
(* the reference and returns the heap it leaves behind with its value; the     *)
(* arrays it built are the places after the first.                             *)

\* [...array], array.slice(..) and array.map(..) build a new array
NewArray(h, elements) == Append(h, elements)
\* The reference of the array built last
Newest(h) == Len(h)
\* Array.prototype.sort sorts the array it is called on, in place
SortInPlace(h, ref, sorted) == [h EXCEPT ![ref] = sorted]

CallerArray == 1

\* Mutant: the products are sorted where they are, without the copy
getBottomProductsOn_InPlace(h, ref, count) ==
    LET h1 == SortInPlace(h, ref, SortByProfit(h[ref]))
        h2 == NewArray(h1, slice(h1[ref], 0, count))
    IN  [heap |-> h2, value |-> h2[Newest(h2)]]

\* getBottomProducts: [...products].sort(..).slice(0, count) (analytics.ts,
\* lines 133-135)
getBottomProductsOn(h, ref, count) ==
    LET h1 == NewArray(h, h[ref])
        copy == Newest(h1)
        h2 == SortInPlace(h1, copy, SortByProfit(h1[copy]))
        h3 == NewArray(h2, slice(h2[copy], 0, count))
    IN  [heap |-> h3, value |-> h3[Newest(h3)]]

\* calculateGrowthRate: [...monthlyRevenue].sort(..) when there are two months
\* (lines 200-202)
calculateGrowthRateOn(h, ref) ==
    IF Len(h[ref]) < 2 THEN [heap |-> h, value |-> calculateGrowthRate(h[ref])]
    ELSE LET h1 == NewArray(h, h[ref])
             sorted == Newest(h1)
             h2 == SortInPlace(h1, sorted, SortByMonth(h1[sorted]))
         IN  [heap |-> h2, value |-> calculateGrowthRate(h[ref])]

\* calculateRevenueConcentration: reduce reads the array, slice(0, 3) builds one
\* (lines 176-184)
calculateRevenueConcentrationOn(h, ref) ==
    LET totalRevenue == SumSeq([k \in DOMAIN h[ref] |-> h[ref][k].totalRevenue])
    IN  [heap |-> IF totalRevenue = 0 THEN h ELSE NewArray(h, slice(h[ref], 0, 3)),
         value |-> calculateRevenueConcentration(h[ref])]

\* forecastRevenue: [...dailyRevenue].sort(..), sortedData.map(..) and the
\* forecast array (forecasting.ts, lines 106-132)
forecastRevenueOn(h, ref, days, tz) ==
    LET value == forecastRevenue(h[ref], days, tz)
    IN  IF Len(h[ref]) = 0 THEN [heap |-> NewArray(h, value.forecast), value |-> value]
        ELSE LET h1 == NewArray(h, h[ref])
                 sortedData == Newest(h1)
                 h2 == SortInPlace(h1, sortedData, SortByTime(h1[sortedData]))
                 h3 == NewArray(h2, RegressionData(h2[sortedData]))
             IN  [heap |-> NewArray(h3, value.forecast), value |-> value]

\* parseFloat((sum / n).toFixed(2)) of a sum in mills, in mills
AverageToFixed2(sum, n) == 10 * RoundDiv(sum, 10 * n)

\* The entry of calculateMovingAverage for the day at `index` of the sorted
\* series (lines 176-190)
MovingAverageAt(sorted, index, windowSize) ==
    LET start == Max(1, index - windowSize + 1)
        window == SubSeq(sorted, start, index)
        sumRevenue == SumSeq([k \in DOMAIN window |-> window[k].revenue])
        sumCost == SumSeq([k \in DOMAIN window |-> window[k].cost])
    IN  [date |-> sorted[index].date,
         revenue |-> AverageToFixed2(sumRevenue, Len(window)),
         cost |-> AverageToFixed2(sumCost, Len(window)),
         profit |-> AverageToFixed2(sumRevenue - sumCost, Len(window))]

\* calculateMovingAverage: [...dailyRevenue].sort(..) and sorted.map(..)
\* (lines 168-191)
calculateMovingAverageOn(h, ref, windowSize) ==
    LET h1 == NewArray(h, h[ref])
        sorted == Newest(h1)
        h2 == SortInPlace(h1, sorted, SortByTime(h1[sorted]))
        h3 == NewArray(h2, [index \in DOMAIN h2[sorted] |->
                               MovingAverageAt(h2[sorted], index, windowSize)])
    IN  [heap |-> h3, value |-> h3[Newest(h3)]]

\* `windowSize: number = 7`
DefaultWindowSize == 7

\* detectAnomalies: dailyRevenue.map(..) and the array `anomalies`, pushed onto
\* and sorted in place (part_001, lines 99-138)
detectAnomaliesOn(h, ref, t) ==
    LET value == detectAnomalies(h[ref], t)
    IN  IF Len(h[ref]) = 0 THEN [heap |-> NewArray(h, <<>>), value |-> value]
        ELSE LET h1 == NewArray(h, [k \in DOMAIN h[ref] |-> h[ref][k].revenue])
                 h2 == NewArray(h1, <<>>)
                 anomalies == Newest(h2)
             IN  [heap |-> SortInPlace(h2, anomalies, value.anomalies), value |-> value]

\* detectAnomalyPatterns: [...anomalies].sort(..) and the array of streaks
\* (lines 208-214)
detectAnomalyPatternsOn(h, ref) ==
    LET value == detectAnomalyPatterns(h[ref])
    IN  IF Len(h[ref]) = 0 THEN [heap |-> NewArray(h, <<>>), value |-> value]
        ELSE LET h1 == NewArray(h, h[ref])
                 sorted == Newest(h1)
                 h2 == SortInPlace(h1, sorted, SortByTime(h1[sorted]))
             IN  [heap |-> NewArray(h2, value.consecutiveStreaks), value |-> value]

----------------------------------------------------------------------------
(* A caller's array: inputs and calls *)

\* Daily series in date order and with the first day moved to the end
FrameDailies ==
    { Rotate(HistoryOf(rs, "2024-02-27"), r) : rs \in ForecastRevenues, r \in 0..1 }

\* Anomalies of one type in any order of three dates, dates repeated
FrameAnomalies ==
    SeqsUpTo({ AnomalyOn(date, "spike") : date \in {"2024-01-30", "2024-01-31", "2024-02-02"} },
             3)

\* The caller's array with the kind of its elements
ArrayOf(kind, elements) == [kind |-> kind, elements |-> elements]

CallerArrays ==
    { ArrayOf("products", l) : l \in ProductLists }
        \cup { ArrayOf("months", l) : l \in HealthMonths }
        \cup { ArrayOf("days", l) : l \in FrameDailies \cup {<<>>} }
        \cup { ArrayOf("anomalies", l) : l \in FrameAnomalies }

FrameInit ==
    /\ input = OtherMetrics
    /\ InsightAtRest
    /\ AggIdle
    /\ DetectIdle
    /\ ForecastIdle
    /\ RouteIdle
    /\ given \in CallerArrays
    /\ heap = <<given.elements>>
    /\ called = {}
    /\ returned = <<>>

\* The caller passes its array to the function `name`, once; the arrays the
\* call before built are no longer referenced
Pass(name, kind, outcome) ==
    /\ given.kind = kind
    /\ name \notin called
    /\ called' = called \cup {name}
    /\ heap' = outcome.heap
    /\ returned' = outcome.value
    /\ UNCHANGED <<given, insightVars, aggVars, healthVars, detectVars, forecastVars,
                   routeVars>>

\* The caller's array alone
Kept == <<heap[CallerArray]>>

PassToGetBottomProducts ==
    \E count \in {2, 5} :
        Pass("getBottomProducts", "products", getBottomProductsOn(Kept, CallerArray, count))

PassToCalculateRevenueConcentration ==
    Pass("calculateRevenueConcentration", "products",
         calculateRevenueConcentrationOn(Kept, CallerArray))

PassToCalculateGrowthRate ==
    Pass("calculateGrowthRate", "months", calculateGrowthRateOn(Kept, CallerArray))

PassToForecastRevenue ==
    Pass("forecastRevenue", "days",
         forecastRevenueOn(Kept, CallerArray, MaxForecast, timeZone))

PassToCalculateMovingAverage ==
    \E windowSize \in {2, DefaultWindowSize} :
        Pass("calculateMovingAverage", "days",
             calculateMovingAverageOn(Kept, CallerArray, windowSize))

PassToDetectAnomalies ==
    Pass("detectAnomalies", "days", detectAnomaliesOn(Kept, CallerArray, RouteThreshold))

PassToDetectAnomalyPatterns ==
    Pass("detectAnomalyPatterns", "anomalies", detectAnomalyPatternsOn(Kept, CallerArray))

FrameNext ==
    \/ PassToGetBottomProducts
    \/ PassToCalculateRevenueConcentration
    \/ PassToCalculateGrowthRate
    \/ PassToForecastRevenue
    \/ PassToCalculateMovingAverage
    \/ PassToDetectAnomalies
    \/ PassToDetectAnomalyPatterns

SpecFrame == FrameInit /\ [][FrameNext]_vars

----------------------------------------------------------------------------
(* Claims about the caller's array *)

\* C24: no core function changes the list it is given: after getBottomProducts,
\* calculateGrowthRate, calculateRevenueConcentration, forecastRevenue,
\* calculateMovingAverage, detectAnomalies or detectAnomalyPatterns returns, the
\* caller's list holds the same elements in the same order as before the call,
\* so a list passed to several functions is seen unchanged by each.
C24_CallerArrayUnchanged ==
    heap # <<>> => heap[CallerArray] = given.elements

\* A product list has been passed to calculateRevenueConcentration and then to
\* getBottomProducts, which sorted its own copy into another order
C24_Witness ==
    /\ given.kind = "products"
    /\ called = {"calculateRevenueConcentration", "getBottomProducts"}
    /\ Len(heap) = 3
    /\ heap[2] = SortByProfit(given.elements)
    /\ heap[2] # given.elements
    /\ returned = slice(heap[2], 0, 2)
    /\ heap[CallerArray] = given.elements

============================================================================
